---- MODULE Spec2Model ----
(***************************************************************************)
(* Conversation-context management and streaming pipeline of the          *)
(* multimodal chatbot backend.                                             *)
(*                                                                         *)
(* Six specifications share the definitions of this module:               *)
(*   StoreSpec  the Context Store (database/repository.py) driven by      *)
(*              arbitrary interleavings of repository calls;               *)
(*   Spec       one chat-stream request (api/routes/chat.py and           *)
(*              services/llm_service.py) running against the store while   *)
(*              other requests create sessions or delete its session;      *)
(*   CsvSpec    the Tabular Summarizer (services/csv_service.py) followed  *)
(*              by a store round trip;                                     *)
(*   PayloadSpec  the payload assembled for a chat-stream request on a     *)
(*              session that already holds messages and contexts;          *)
(*   EntrySpec  the requests that get or create a session (chat stream,    *)
(*              CSV upload, CSV load from a URL, image upload), in any     *)
(*              order;                                                     *)
(*   TurnSpec   one chat-stream request whose repository calls are taken   *)
(*              one by one, with the calls of requests served by another   *)
(*              worker process on the same database in between.            *)
(*                                                                         *)
(* Every repository function is synchronous (it contains no await) and is  *)
(* called from handlers running on one event loop, so a repository call    *)
(* is one atomic step; inside one process requests interleave only at the  *)
(* awaits of the handlers (the provider call of a chat stream, the reads   *)
(* of an upload, the analysis of an uploaded image).  Each repository call *)
(* is a transaction of its own, so between two calls of a handler another  *)
(* process may commit (TurnSpec).                                          *)
(***************************************************************************)
EXTENDS Integers, Sequences, FiniteSets, TLC

VARIABLES
    db,         \* the database: conversations, messages, image_contexts, csv_contexts
    clock,      \* datetime.utcnow(), a counter that advances with every call
    last,       \* StoreSpec: the last repository call and its outcome
    chat,       \* Spec: the chat-stream request in flight
    csv         \* CsvSpec: the upload being summarized and stored

vars == <<db, clock, last, chat, csv>>

-----------------------------------------------------------------------------
(* Bounds of the model *)

MaxConvs == 2          \* conversations ever created (uuid4 values)
MaxClock == 5          \* repository calls in one behaviour of StoreSpec
MaxRows == 2           \* data lines of an enumerated CSV upload
MaxUploads == 2        \* CSV uploads in one behaviour of CsvSpec
MaxTurns == 1          \* chat-stream requests in one behaviour of Spec
MaxDeltas == 2         \* deltas the provider sends in one chat-stream request
MaxStored == 2         \* messages of an enumerated earlier conversation (PayloadSpec)

-----------------------------------------------------------------------------
(* Optional values: Python's None and a present value *)

None == <<>>
Some(x) == <<x>>
IsNone(o) == o = <<>>
The(o) == o[1]

ConvIds == 1..MaxConvs

-----------------------------------------------------------------------------
(* database/models.py: the tables *)

\* Conversation row as inserted by create_conversation: the column defaults
Conversation(now) ==
    [ created_at       |-> now,
      updated_at       |-> now,
      title            |-> None,
      has_active_image |-> FALSE,
      image_filename   |-> None,
      has_active_csv   |-> FALSE,
      csv_filename     |-> None,
      csv_summary      |-> None ]

ImageContext(id, conv_id, image_base64, filename, now) ==
    [ id              |-> id,
      conversation_id |-> conv_id,
      image_base64    |-> image_base64,
      filename        |-> filename,
      uploaded_at     |-> now ]

\* a CSVContext row holding the number of rows kept for the statistics
CSVContextDisplayed(id, conv_id, filename, csv_data, full_csv_data, summary, now) ==
    [ id              |-> id,
      conversation_id |-> conv_id,
      filename        |-> filename,
      row_count       |-> csv_data.displayed_rows,
      column_count    |-> Len(csv_data.columns),
      columns         |-> csv_data.columns,
      numeric_columns |-> csv_data.numeric_columns,
      text_columns    |-> csv_data.text_columns,
      csv_data        |-> full_csv_data,
      summary_text    |-> summary,
      uploaded_at     |-> now ]

CSVContext(id, conv_id, filename, csv_data, full_csv_data, summary, now) ==
    [ id              |-> id,
      conversation_id |-> conv_id,
      filename        |-> filename,
      row_count       |-> csv_data.row_count,
      column_count    |-> Len(csv_data.columns),
      columns         |-> csv_data.columns,
      numeric_columns |-> csv_data.numeric_columns,
      text_columns    |-> csv_data.text_columns,
      csv_data        |-> full_csv_data,
      summary_text    |-> summary,
      uploaded_at     |-> now ]

Message(conv_id, role, content, now, image_url, csv_info, chart_data) ==
    [ conversation_id |-> conv_id,
      role            |-> role,
      content         |-> content,
      timestamp       |-> now,
      image_url       |-> image_url,
      csv_info        |-> csv_info,
      chart_data      |-> chart_data ]

\* The empty database created by init_db
EmptyDb ==
    [ conversations  |-> << >>,     \* id -> Conversation row
      issued         |-> 0,         \* uuid4 values handed out so far
      messages       |-> << >>,     \* Message rows in insertion order
      image_contexts |-> {},
      csv_contexts   |-> {} ]

Exists(d, conv_id) == conv_id \in DOMAIN d.conversations

\* INTEGER PRIMARY KEY autoincrement of SQLite: one more than the largest id
NextId(table) ==
    IF table = {} THEN 1
    ELSE 1 + (CHOOSE m \in {r.id : r \in table} : \A r \in table : r.id <= m)

\* Result of a repository call: the database it leaves, the exception it
\* raised (None when it returned), and its return value
Returned(d, v) == [db |-> d, raised |-> None, ret |-> v]
\* the exception swallowed: the call returns None
FailsSilently(d, e) == [db |-> d, raised |-> None, ret |-> None]
Raised(d, e)   == [db |-> d, raised |-> Some(e), ret |-> None]

-----------------------------------------------------------------------------
(* Text: a Python str is a sequence of characters *)

Min(a, b) == IF a <= b THEN a ELSE b
Max(a, b) == IF a >= b THEN a ELSE b

\* s.startswith(p)
StartsWith(s, p) == Len(s) >= Len(p) /\ SubSeq(s, 1, Len(p)) = p

\* s[:n]
Prefix(s, n) == SubSeq(s, 1, Min(n, Len(s)))

\* a title that never counts as set
AlwaysFalsy(o) == TRUE

\* `not x` for an optional str: None and the empty string are falsy
Falsy(o) == IsNone(o) \/ The(o) = << >>

TITLE_LEN == 100

-----------------------------------------------------------------------------
(* SQLAlchemy session (SessionLocal, models.py): the unit of work *)

\* Session.flush() on one table. The unit of work emits the INSERTs of the
\* pending objects before the DELETEs of the objects marked deleted, and
\* conversation_id is UNIQUE in image_contexts and csv_contexts: an INSERT
\* for a conversation that still has a row raises IntegrityError.
Flush(table, new, deleted) ==
    IF \E n \in new, r \in table : r.conversation_id = n.conversation_id
    THEN [ok |-> FALSE, table |-> table]
    ELSE [ok |-> TRUE,  table |-> (table \cup new) \ deleted]

\* a failed call that keeps what it had flushed before the failure
NoRollback(before, working) == working

\* db.rollback() / db.close() of an uncommitted session: the database is as
\* it was before the call; the working copy is dropped
Rollback(before, working) == before

\* Query(...).filter(conversation_id == conv_id).first(), as a set of 0 or 1 rows
RowsOf(table, conv_id) == {r \in table : r.conversation_id = conv_id}

-----------------------------------------------------------------------------
(* database/repository.py *)

create_conversation(d, now) ==
    LET conv_id == d.issued + 1 IN
    Returned([d EXCEPT !.conversations = @ @@ (conv_id :> Conversation(now)),
                       !.issued = conv_id],
             Some(conv_id))

\* the conversation row deleted alone, its messages and contexts left behind
DeleteWithoutCascade(d, conv_id) ==
    IF Exists(d, conv_id)
    THEN Returned([d EXCEPT !.conversations = [c \in DOMAIN @ \ {conv_id} |-> @[c]]],
                  Some(TRUE))
    ELSE Returned(d, Some(FALSE))

delete_conversation(d, conv_id) ==
    IF Exists(d, conv_id)
    THEN Returned(
           [d EXCEPT
              !.conversations  = [c \in DOMAIN @ \ {conv_id} |-> @[c]],
              !.messages       = SelectSeq(@, LAMBDA m : m.conversation_id # conv_id),
              !.image_contexts = @ \ RowsOf(@, conv_id),
              !.csv_contexts   = @ \ RowsOf(@, conv_id)],
           Some(TRUE))
    ELSE Returned(d, Some(FALSE))

\* add_message without its look-up of the conversation: the message of a
\* missing conversation is inserted all the same
AddMessageUnchecked(d, conv_id, role, content, image_url, csv_data, chart_data, now) ==
    LET message == Message(conv_id, role, content, now,
                           image_url, csv_data, chart_data)
    IN IF ~Exists(d, conv_id)
       THEN Returned([d EXCEPT !.messages = Append(@, message)], Some(message))
       ELSE LET conversation == d.conversations[conv_id]
                title == IF Falsy(conversation.title) /\ role = "user"
                            /\ ~StartsWith(content, <<"[">>)
                         THEN Some(Prefix(content, TITLE_LEN))
                         ELSE conversation.title
            IN Returned(
                 [d EXCEPT !.messages = Append(@, message),
                           !.conversations[conv_id] =
                               [@ EXCEPT !.updated_at = now, !.title = title]],
                 Some(message))

add_message(d, conv_id, role, content, image_url, csv_data, chart_data, now) ==
    IF ~Exists(d, conv_id)
    THEN Raised(d, "ValueError")
    ELSE LET conversation == d.conversations[conv_id]
             message == Message(conv_id, role, content, now,
                                image_url, csv_data, chart_data)
             title == IF Falsy(conversation.title) /\ role = "user"
                         /\ ~StartsWith(content, <<"[">>)
                      THEN Some(Prefix(content, TITLE_LEN))
                      ELSE conversation.title
         IN Returned(
              [d EXCEPT !.messages = Append(@, message),
                        !.conversations[conv_id] =
                            [@ EXCEPT !.updated_at = now, !.title = title]],
              Some(message))

\* the rows newest first
NewestFirst(ms) == [i \in 1..Len(ms) |-> ms[Len(ms) + 1 - i]]

\* Message rows of one conversation ORDER BY timestamp (insertion order
\* among equal timestamps)
RECURSIVE SortedByTimestamp(_)
SortedByTimestamp(ms) ==
    IF ms = << >> THEN << >>
    ELSE LET i == CHOOSE i \in 1..Len(ms) :
                    \A j \in 1..Len(ms) :
                        \/ ms[i].timestamp < ms[j].timestamp
                        \/ (ms[i].timestamp = ms[j].timestamp /\ i <= j)
             rest == [k \in 1..(Len(ms) - 1) |-> IF k < i THEN ms[k] ELSE ms[k + 1]]
         IN <<ms[i]>> \o SortedByTimestamp(rest)

get_messages(d, conv_id) ==
    SortedByTimestamp(SelectSeq(d.messages, LAMBDA m : m.conversation_id = conv_id))

\* conversation.messages: the relationship is loaded without ORDER BY, by
\* rowid through the index on conversation_id, i.e. in insertion order
RelatedMessages(d, conv_id) ==
    SelectSeq(d.messages, LAMBDA m : m.conversation_id = conv_id)

get_conversation(d, conv_id) ==
    IF ~Exists(d, conv_id) THEN None
    ELSE LET conversation == d.conversations[conv_id]
             images == RowsOf(d.image_contexts, conv_id)
             csvs == RowsOf(d.csv_contexts, conv_id)
             active_image ==
                 IF images = {} THEN None
                 ELSE Some((CHOOSE r \in images : TRUE).image_base64)
             active_csv ==
                 IF csvs = {} THEN None
                 ELSE LET c == CHOOSE r \in csvs : TRUE IN
                      Some([ filename        |-> c.filename,
                             row_count       |-> c.row_count,
                             column_count    |-> c.column_count,
                             columns         |-> c.columns,
                             numeric_columns |-> c.numeric_columns,
                             text_columns    |-> c.text_columns,
                             data            |-> c.csv_data ])
         IN Some([ id         |-> conv_id,
                   created_at |-> conversation.created_at,
                   updated_at |-> conversation.updated_at,
                   messages   |-> RelatedMessages(d, conv_id),
                   context    |-> [ active_image   |-> active_image,
                                    image_filename |-> conversation.image_filename,
                                    active_csv     |-> active_csv,
                                    csv_filename   |-> conversation.csv_filename,
                                    csv_summary    |-> conversation.csv_summary ] ])

PREVIEW_LEN == 50

\* the ids in the order the conversations were created
OrderByCreation(d, ids) ==
    [i \in 1..Cardinality(ids) |->
        CHOOSE c \in ids : Cardinality({o \in ids : o <= c}) = i]

\* the ids of the conversations ORDER BY updated_at DESC
RECURSIVE OrderByUpdatedDesc(_, _)
OrderByUpdatedDesc(d, ids) ==
    IF ids = {} THEN << >>
    ELSE LET c == CHOOSE c \in ids :
                    \A o \in ids : d.conversations[o].updated_at
                                      <= d.conversations[c].updated_at
         IN <<c>> \o OrderByUpdatedDesc(d, ids \ {c})

\* the listing with the preview taken from the first user message,
\* whatever it begins with
ListPreviewingMarkers(d) ==
    LET order == OrderByUpdatedDesc(d, DOMAIN d.conversations) IN
    [i \in 1..Len(order) |->
        LET conv == d.conversations[order[i]]
            messages == RelatedMessages(d, order[i])
            users == SelectSeq(messages, LAMBDA msg : msg.role = "user")
        IN [ id            |-> order[i],
             created_at    |-> conv.created_at,
             updated_at    |-> conv.updated_at,
             message_count |-> Len(messages),
             preview       |-> IF users = << >> THEN <<"New conversation">>
                               ELSE Prefix(users[1].content, PREVIEW_LEN)
                                    \o (IF Len(users[1].content) > PREVIEW_LEN
                                        THEN <<"...">> ELSE << >>),
             has_image     |-> conv.has_active_image,
             has_csv       |-> conv.has_active_csv ]]

get_all_conversations(d) ==
    LET order == OrderByUpdatedDesc(d, DOMAIN d.conversations) IN
    [i \in 1..Len(order) |->
        LET conv == d.conversations[order[i]]
            messages == RelatedMessages(d, order[i])
            users == SelectSeq(messages, LAMBDA msg :
                        msg.role = "user" /\ ~StartsWith(msg.content, <<"[">>))
        IN [ id            |-> order[i],
             created_at    |-> conv.created_at,
             updated_at    |-> conv.updated_at,
             message_count |-> Len(messages),
             preview       |-> IF users = << >> THEN <<"New conversation">>
                               ELSE Prefix(users[1].content, PREVIEW_LEN)
                                    \o (IF Len(users[1].content) > PREVIEW_LEN
                                        THEN <<"...">> ELSE << >>),
             has_image     |-> conv.has_active_image,
             has_csv       |-> conv.has_active_csv ]]

HISTORY_LIMIT == 20

\* the whole list whatever the cap
Everything(s, n) == s

\* s[-n:]
Suffix(s, n) == SubSeq(s, Max(1, Len(s) - n + 1), Len(s))

\* the `limit` newest messages of the conversation, oldest first, as
\* {"role", "content"} dicts
get_message_history_for_llm(d, conv_id, limit) ==
    LET newest == Suffix(get_messages(d, conv_id), limit)
    IN [i \in 1..Len(newest) |->
          [role |-> newest[i].role, content |-> newest[i].content]]

set_active_image(d, conv_id, image_base64, filename, now) ==
    IF ~Exists(d, conv_id)
    THEN Returned(d, None)
    ELSE LET existing == RowsOf(d.image_contexts, conv_id)
             image_context == ImageContext(NextId(d.image_contexts), conv_id,
                                           image_base64, filename, now)
             \* db.delete(existing) and db.add(image_context) are both pending
             \* until db.commit() flushes them together
             commit == Flush(d.image_contexts, {image_context}, existing)
         IN IF ~commit.ok
            THEN Raised(Rollback(d, d), "IntegrityError")
            ELSE Returned(
                   [d EXCEPT !.image_contexts = commit.table,
                             !.conversations[conv_id] =
                                 [@ EXCEPT !.has_active_image = TRUE,
                                           !.image_filename = Some(filename),
                                           !.updated_at = now]],
                   None)

get_active_image(d, conv_id) ==
    LET rows == RowsOf(d.image_contexts, conv_id) IN
    IF rows = {} THEN None ELSE Some((CHOOSE r \in rows : TRUE).image_base64)

get_image_filename(d, conv_id) ==
    IF Exists(d, conv_id) THEN d.conversations[conv_id].image_filename ELSE None

\* clear_image_context whose DELETE has lost its filter
ClearEveryImage(d, conv_id, now) ==
    LET deleted == [d EXCEPT !.image_contexts = {}] IN
    IF Exists(d, conv_id)
    THEN Returned([deleted EXCEPT !.conversations[conv_id] =
                       [@ EXCEPT !.has_active_image = FALSE,
                                 !.image_filename = None,
                                 !.updated_at = now]],
                  None)
    ELSE Returned(deleted, None)

clear_image_context(d, conv_id, now) ==
    LET deleted == [d EXCEPT !.image_contexts = @ \ RowsOf(@, conv_id)] IN
    IF Exists(d, conv_id)
    THEN Returned([deleted EXCEPT !.conversations[conv_id] =
                       [@ EXCEPT !.has_active_image = FALSE,
                                 !.image_filename = None,
                                 !.updated_at = now]],
                  None)
    ELSE Returned(deleted, None)

\* full_csv_data with the statistics lost (the key read with its default)
FullCsvDataNoStats(csv_data) ==
    [ sample_rows    |-> csv_data.sample_rows,
      numeric_stats  |-> << >>,
      missing_values |-> csv_data.missing_values,
      dtypes         |-> csv_data.dtypes ]

\* full_csv_data of set_active_csv: the four keys kept in the JSON column
FullCsvData(csv_data) ==
    [ sample_rows    |-> csv_data.sample_rows,
      numeric_stats  |-> csv_data.numeric_stats,
      missing_values |-> csv_data.missing_values,
      dtypes         |-> csv_data.dtypes ]

\* fault: the store raises inside the try block after the flush of the
\* deletion (a failing commit)
set_active_csv(d, conv_id, csv_data, filename, summary, now, fault) ==
    IF ~Exists(d, conv_id)
    THEN Returned(d, None)
    ELSE LET existing == RowsOf(d.csv_contexts, conv_id)
             \* db.delete(existing); db.flush()
             flushed == Flush(d.csv_contexts, {}, existing)
             working == [d EXCEPT !.csv_contexts = flushed.table]
             csv_context == CSVContext(NextId(flushed.table), conv_id, filename,
                                       csv_data, FullCsvData(csv_data), summary, now)
             commit == Flush(flushed.table, {csv_context}, {})
         IN IF fault \/ ~commit.ok
            THEN Raised(Rollback(d, working), "Exception")
            ELSE Returned(
                   [d EXCEPT !.csv_contexts = commit.table,
                             !.conversations[conv_id] =
                                 [@ EXCEPT !.has_active_csv = TRUE,
                                           !.csv_filename = Some(filename),
                                           !.csv_summary = Some(summary),
                                           !.updated_at = now]],
                   None)

get_active_csv(d, conv_id) ==
    LET rows == RowsOf(d.csv_contexts, conv_id) IN
    IF rows = {} THEN None
    ELSE LET csv_context == CHOOSE r \in rows : TRUE
             csv_data == csv_context.csv_data
         IN Some([ filename        |-> csv_context.filename,
                   row_count       |-> csv_context.row_count,
                   column_count    |-> csv_context.column_count,
                   columns         |-> csv_context.columns,
                   numeric_columns |-> csv_context.numeric_columns,
                   text_columns    |-> csv_context.text_columns,
                   sample_rows     |-> csv_data.sample_rows,
                   numeric_stats   |-> csv_data.numeric_stats,
                   missing_values  |-> csv_data.missing_values,
                   dtypes          |-> csv_data.dtypes ])

get_csv_summary(d, conv_id) ==
    IF Exists(d, conv_id) THEN d.conversations[conv_id].csv_summary ELSE None

\* clear_csv_context that also deletes the messages of the session
ClearCsvAndMessages(d, conv_id, now) ==
    LET deleted == [d EXCEPT !.csv_contexts = @ \ RowsOf(@, conv_id),
                             !.messages = SelectSeq(@, LAMBDA m :
                                              m.conversation_id # conv_id)] IN
    IF Exists(d, conv_id)
    THEN Returned([deleted EXCEPT !.conversations[conv_id] =
                       [@ EXCEPT !.has_active_csv = FALSE,
                                 !.csv_filename = None,
                                 !.csv_summary = None,
                                 !.updated_at = now]],
                  None)
    ELSE Returned(deleted, None)

clear_csv_context(d, conv_id, now) ==
    LET deleted == [d EXCEPT !.csv_contexts = @ \ RowsOf(@, conv_id)] IN
    IF Exists(d, conv_id)
    THEN Returned([deleted EXCEPT !.conversations[conv_id] =
                       [@ EXCEPT !.has_active_csv = FALSE,
                                 !.csv_filename = None,
                                 !.csv_summary = None,
                                 !.updated_at = now]],
                  None)
    ELSE Returned(deleted, None)

\* clear_all_context that leaves the image slot alone
ClearCsvOnly(d, conv_id, now) == clear_csv_context(d, conv_id, now)

clear_all_context(d, conv_id, now) ==
    clear_csv_context(clear_image_context(d, conv_id, now).db, conv_id, now)

-----------------------------------------------------------------------------
(* Arithmetic of the statistics.  A statistic rounded to 2 decimals is the  *)
(* integer number of hundredths; a percentage with 1 decimal is the number  *)
(* of tenths.                                                               *)

RECURSIVE GCD(_, _)
GCD(a, b) == IF b = 0 THEN a ELSE GCD(b, a % b)

\* round(p / q) for p >= 0, q > 0: nearest integer, ties to the even one
RoundDiv(p, q) ==
    LET f == p \div q
        r == p % q
    IN IF 2 * r < q THEN f
       ELSE IF 2 * r > q THEN f + 1
       ELSE IF f % 2 = 0 THEN f ELSE f + 1

\* sum of f[lo..hi]
RECURSIVE SumRange(_, _, _)
SumRange(f, lo, hi) ==
    IF lo > hi THEN 0
    ELSE IF lo = hi THEN f[lo]
    ELSE LET mid == (lo + hi) \div 2
         IN SumRange(f, lo, mid) + SumRange(f, mid + 1, hi)

Sum(f) == SumRange(f, 1, Len(f))

\* largest r in lo..hi with (2r - 1)^2 * b <= 40000 * a, that is the
\* nearest integer to 100 * sqrt(a / b)
RECURSIVE SqrtHundredths(_, _, _, _)
SqrtHundredths(a, b, lo, hi) ==
    IF lo >= hi THEN lo
    ELSE LET mid == (lo + hi + 1) \div 2
         IN IF (2 * mid - 1) * (2 * mid - 1) * b <= 40000 * a
            THEN SqrtHundredths(a, b, mid, hi)
            ELSE SqrtHundredths(a, b, lo, mid - 1)

\* the k-th smallest element of a non-empty sequence of integers
Kth(xs, k) ==
    CHOOSE v \in {xs[i] : i \in 1..Len(xs)} :
        /\ Cardinality({i \in 1..Len(xs) : xs[i] < v}) < k
        /\ k <= Cardinality({i \in 1..Len(xs) : xs[i] <= v})

SeqMin(xs) == Kth(xs, 1)
SeqMax(xs) == Kth(xs, Len(xs))

\* Series.mean(), rounded to 2 decimals
Mean100(xs) == RoundDiv(100 * Sum(xs), Len(xs))

\* Series.median(), rounded to 2 decimals
Median100(xs) ==
    LET n == Len(xs) IN
    IF n % 2 = 1 THEN 100 * Kth(xs, (n + 1) \div 2)
    ELSE 50 * (Kth(xs, n \div 2) + Kth(xs, n \div 2 + 1))

\* the population standard deviation (ddof = 0), rounded to 2 decimals
StdPop100(xs) ==
    LET n  == Len(xs)
        s1 == Sum(xs)
        s2 == Sum([i \in 1..n |-> xs[i] * xs[i]])
        a  == n * s2 - s1 * s1
        b  == n * n
        g  == GCD(a, b)
    IN IF a = 0 THEN 0
       ELSE SqrtHundredths(a \div g, b \div g, 0, 100 * (SeqMax(xs) - SeqMin(xs)) + 1)

\* Series.std() (sample standard deviation, ddof = 1), rounded to 2 decimals
Std100(xs) ==
    LET n  == Len(xs)
        s1 == Sum(xs)
        s2 == Sum([i \in 1..n |-> xs[i] * xs[i]])
        a  == n * s2 - s1 * s1
        b  == n * (n - 1)
        g  == GCD(a, b)
    IN IF a = 0 THEN 0
       ELSE SqrtHundredths(a \div g, b \div g, 0, 100 * (SeqMax(xs) - SeqMin(xs)) + 1)

-----------------------------------------------------------------------------
(* services/csv_service.py: the Tabular Summarizer *)

MAX_ROWS_DISPLAY == 100
MAX_ROWS_CONTEXT == 1000
SUMMARY_MISSING_COLS == 5

\* Cells of a DataFrame: an integer, a string, or a missing value (NaN)
Num(n)  == [kind |-> "num",  num |-> n, str |-> ""]
Str(s)  == [kind |-> "str",  num |-> 0, str |-> s]
NaN     == [kind |-> "nan",  num |-> 0, str |-> ""]
PyNone  == [kind |-> "None", num |-> 0, str |-> ""]

\* pd.isna(value)
IsNa(cell) == cell.kind \in {"nan", "None"}

\* A DataFrame: column names in order, and rows mapping column name -> cell
DataFrame(columns, rows) == [columns |-> columns, rows |-> rows]

ColSet(df) == {df.columns[i] : i \in 1..Len(df.columns)}

\* df[col] as a sequence of cells
Column(df, col) == [i \in 1..Len(df.rows) |-> df.rows[i][col]]

\* df.head(n)
DfHead(df, n) == DataFrame(df.columns, SubSeq(df.rows, 1, Min(n, Len(df.rows))))

\* the dtype pandas infers for a column read by read_csv
Dtype(df, col) ==
    LET cells == Column(df, col)
        kinds == {cells[i].kind : i \in 1..Len(cells)}
    IN IF kinds = {} \/ "str" \in kinds THEN "object"
       ELSE IF "nan" \in kinds THEN "float64"
       ELSE "int64"

\* Series.dropna() of a numeric column, as integers
DropNa(df, col) ==
    LET kept == SelectSeq(Column(df, col), LAMBDA c : ~IsNa(c))
    IN [i \in 1..Len(kept) |-> kept[i].num]

\* df[col].count(): the cells that are not null
NonNullCount(df, col) ==
    Cardinality({i \in 1..Len(df.rows) : ~IsNa(df.rows[i][col])})

\* df[col].isnull().sum()
NullCount(df, col) ==
    Cardinality({i \in 1..Len(df.rows) : IsNa(df.rows[i][col])})

\* the entry of numeric_stats for one column (lines 59-67)
ColumnStats(col_data, missing) ==
    [ mean    |-> Mean100(col_data),
      median  |-> Median100(col_data),
      min     |-> 100 * SeqMin(col_data),
      max     |-> 100 * SeqMax(col_data),
      std     |-> IF Len(col_data) > 1 THEN Std100(col_data) ELSE 0,
      count   |-> Len(col_data),
      missing |-> missing ]

\* numeric_stats: one entry per numeric column with a non-null value
NumericStats(df, numeric_columns) ==
    LET with_data == {numeric_columns[i] : i \in 1..Len(numeric_columns)}
                       \cap {c \in ColSet(df) : Len(DropNa(df, c)) > 0}
    IN [col \in with_data |-> ColumnStats(DropNa(df, col), NullCount(df, col))]

\* the loop run with `count >= most_missing_count`: of the columns tied for
\* the greatest count, the last one
MostMissingLastOfTied(df, missing_values) ==
    LET n    == Len(df.columns)
        cnt(i) == missing_values[df.columns[i]]
        best == {i \in 1..n : /\ cnt(i) > 0
                              /\ \A j \in 1..n : cnt(j) <= cnt(i)
                              /\ \A j \in (i + 1)..n : cnt(j) < cnt(i)}
    IN IF best = {} THEN [column |-> None, count |-> 0]
       ELSE LET i == CHOOSE i \in best : TRUE
            IN [column |-> Some(df.columns[i]), count |-> cnt(i)]

\* the loop of lines 74-79: the first column, in column order, whose count
\* is strictly above every count before it and at least every count after
MostMissing(df, missing_values) ==
    LET n    == Len(df.columns)
        cnt(i) == missing_values[df.columns[i]]
        best == {i \in 1..n : /\ cnt(i) > 0
                              /\ \A j \in 1..n : cnt(j) <= cnt(i)
                              /\ \A j \in 1..(i - 1) : cnt(j) < cnt(i)}
    IN IF best = {} THEN [column |-> None, count |-> 0]
       ELSE LET i == CHOOSE i \in best : TRUE
            IN [column |-> Some(df.columns[i]), count |-> cnt(i)]

\* df.fillna("") on one cell
FillNa(cell) == IF cell.kind = "nan" THEN Str("") ELSE cell

\* the cleaning loop of lines 85-90 on one cell
CleanCell(cell) == IF IsNa(cell) THEN PyNone ELSE cell

\* sample_rows (lines 82-90)
SampleRows(df) ==
    LET head == DfHead(df, MAX_ROWS_DISPLAY).rows
    IN [i \in 1..Len(head) |->
          [c \in ColSet(df) |-> CleanCell(FillNa(head[i][c]))]]

\* sorted(cols_with_missing.items(), key=lambda x: -x[1]): a stable sort of
\* the columns with missing values, most missing first
RECURSIVE SortedMissing(_, _)
SortedMissing(cols, missing_values) ==
    IF cols = << >> THEN << >>
    ELSE LET i == CHOOSE i \in 1..Len(cols) :
                    \A j \in 1..Len(cols) :
                        \/ missing_values[cols[i]] > missing_values[cols[j]]
                        \/ (missing_values[cols[i]] = missing_values[cols[j]] /\ i <= j)
             rest == [k \in 1..(Len(cols) - 1) |-> IF k < i THEN cols[k] ELSE cols[k + 1]]
         IN <<cols[i]>> \o SortedMissing(rest, missing_values)

\* _generate_text_summary: the lines of the summary; a missing-value line
\* holds the column, its count and the percentage in tenths of a percent
_generate_text_summary(df, filename, numeric_columns, text_columns, missing_values) ==
    LET cols_with_missing == SelectSeq(df.columns, LAMBDA c : missing_values[c] > 0)
        top == Prefix(SortedMissing(cols_with_missing, missing_values),
                      SUMMARY_MISSING_COLS)
    IN << <<"Dataset", filename>>,
          <<"Total rows", Len(df.rows)>>,
          <<"Total columns", Len(df.columns)>>,
          <<"Numeric columns", numeric_columns>>,
          <<"Text columns", text_columns>> >>
       \o (IF cols_with_missing # << >>
           THEN << <<"Missing values:">> >>
                \o [i \in 1..Len(top) |->
                      <<"-", top[i], missing_values[top[i]],
                        RoundDiv(1000 * missing_values[top[i]], Len(df.rows))>>]
           ELSE << <<"Missing values: None">> >>)

\* parse_csv after read_csv has produced the DataFrame (lines 40-125)
Summarize(df_parsed, filename) ==
    LET truncated == Len(df_parsed.rows) > MAX_ROWS_CONTEXT
        df_full == df_parsed
        df == IF truncated THEN DfHead(df_parsed, MAX_ROWS_CONTEXT) ELSE df_parsed
        numeric_columns ==
            SelectSeq(df.columns, LAMBDA c : Dtype(df, c) \in {"int64", "float64"})
        text_columns ==
            SelectSeq(df.columns, LAMBDA c : Dtype(df, c) = "object")
        datetime_columns == << >>
        numeric_stats == NumericStats(df, numeric_columns)
        missing_values == [c \in ColSet(df) |-> NullCount(df, c)]
        most_missing == MostMissing(df, missing_values)
        sample_rows == SampleRows(df)
        text_summary == _generate_text_summary(df_full, filename, numeric_columns,
                                               text_columns, missing_values)
        csv_data ==
            [ filename         |-> filename,
              columns          |-> df.columns,
              row_count        |-> Len(df_full.rows),
              displayed_rows   |-> Len(df.rows),
              truncated        |-> truncated,
              numeric_columns  |-> numeric_columns,
              text_columns     |-> text_columns,
              datetime_columns |-> datetime_columns,
              dtypes           |-> [c \in ColSet(df) |-> Dtype(df, c)],
              sample_rows      |-> sample_rows,
              numeric_stats    |-> numeric_stats,
              missing_values   |-> missing_values ]
        summary ==
            [ row_count           |-> Len(df_full.rows),
              column_count        |-> Len(df.columns),
              columns             |-> df.columns,
              numeric_columns     |-> numeric_columns,
              text_columns        |-> text_columns,
              missing_values      |-> missing_values,
              numeric_stats       |-> numeric_stats,
              most_missing_column |-> most_missing.column,
              most_missing_count  |-> most_missing.count,
              text_summary        |-> text_summary,
              sample_rows         |-> Prefix(sample_rows, 5) ]
    IN [csv_data |-> csv_data, summary |-> summary]

\* The content handed to parse_csv: the header and the data lines of the
\* delimited text.  A line is a row of cells or a malformed line (a wrong
\* number of fields); unreadable content is rejected by both parsers.
Good(row) == [bad |-> FALSE, row |-> row]
Content(columns, lines, unreadable) ==
    [columns |-> columns, lines |-> lines, unreadable |-> unreadable]

\* pd.read_csv(StringIO(content)): the strict parser.  Of the unreadable
\* contents, the one without data lines has nothing to parse
\* (EmptyDataError, not a ParserError) and the one with data lines holds a
\* quote that is never closed (ParserError, from either engine)
read_csv(content) ==
    IF content.unreadable
    THEN [error |-> IF content.lines = << >> THEN "Exception" ELSE "ParserError",
          df |-> None]
    ELSE IF \E i \in 1..Len(content.lines) : content.lines[i].bad
    THEN [error |-> "ParserError", df |-> None]
    ELSE [error |-> "", df |-> Some(DataFrame(content.columns,
              [i \in 1..Len(content.lines) |-> content.lines[i].row]))]

\* pd.read_csv(..., engine='python', on_bad_lines='skip'): the lenient parser
read_csv_skip(content) ==
    IF content.unreadable THEN [error |-> "Exception", df |-> None]
    ELSE LET kept == SelectSeq(content.lines, LAMBDA l : ~l.bad)
         IN [error |-> "", df |-> Some(DataFrame(content.columns,
                [i \in 1..Len(kept) |-> kept[i].row]))]

\* parse_csv (lines 14-125)
parse_csv(content, filename) ==
    LET strict == read_csv(content)
        parsed == IF strict.error = "ParserError" THEN read_csv_skip(content)
                  ELSE strict
    IN IF parsed.error # ""
       THEN [raised |-> Some("ValueError"), ret |-> None]
       ELSE [raised |-> None, ret |-> Some(Summarize(The(parsed.df), filename))]

-----------------------------------------------------------------------------
(* Inputs of the store calls *)

\* images handed over by the image ingestion collaborator: base64 text and filename
ImageUploads ==
    { [image_base64 |-> <<"imgA">>, filename |-> "a.png"],
      [image_base64 |-> <<"imgB">>, filename |-> "b.png"] }

Row(a, b) == [a |-> a, b |-> b]

\* the 3-row, 2-column scenario a,b / 1,x / 2, / 3,z
ScenarioContent ==
    Content(<<"a", "b">>,
            << Good(Row(Num(1), Str("x"))), Good(Row(Num(2), NaN)),
               Good(Row(Num(3), Str("z"))) >>,
            FALSE)

OtherContent ==
    Content(<<"a", "b">>, << Good(Row(Num(4), Str("y"))) >>, FALSE)

\* what the CSV routes pass to set_active_csv: csv_data, filename and
\* summary["text_summary"] of a parsed upload (api/routes/csv.py line 90)
CsvUpload(content, filename) ==
    LET parsed == The(parse_csv(content, filename).ret)
    IN [ csv_data |-> parsed.csv_data,
         filename |-> filename,
         summary  |-> parsed.summary.text_summary ]

CsvUploads ==
    { CsvUpload(ScenarioContent, "t1.csv"), CsvUpload(OtherContent, "t2.csv") }

-----------------------------------------------------------------------------
(* StoreSpec: repository calls in any order *)

NoCall  == [op |-> "none", conv_id |-> 0, arg |-> None, fault |-> FALSE,
            raised |-> None, ret |-> None, before |-> EmptyDb]
NoChat  == [pc |-> "idle"]
NoCsv   == [pc |-> "idle"]

Call(op, conv_id, arg, fault, result) ==
    /\ clock < MaxClock
    /\ db' = result.db
    /\ clock' = clock + 1
    /\ last' = [op |-> op, conv_id |-> conv_id, arg |-> arg, fault |-> fault,
                raised |-> result.raised, ret |-> result.ret, before |-> db]
    /\ UNCHANGED <<chat, csv>>

CallCreateConversation ==
    /\ db.issued < MaxConvs
    /\ Call("create_conversation", db.issued + 1, None, FALSE,
            create_conversation(db, clock))

CallDeleteConversation ==
    \E c \in ConvIds :
        Call("delete_conversation", c, None, FALSE,
             delete_conversation(db, c))

\* contents of appended messages: a plain text, a marker, and a text
\* longer than the title
MessageTexts ==
    { <<"h", "i">>, <<"[", "x">>,
      [i \in 1..(TITLE_LEN + 1) |-> IF i <= TITLE_LEN THEN "a" ELSE "b"] }

\* what the routes append: user texts and markers, assistant responses
MessageInputs ==
    { [role |-> "user", content |-> t] : t \in MessageTexts }
        \cup { [role |-> "assistant", content |-> <<"h", "i">>] }

CallAddMessage ==
    \E c \in ConvIds, m \in MessageInputs :
        Call("add_message", c, Some(m), FALSE,
             add_message(db, c, m.role, m.content, None, None, None, clock))

CallSetActiveImage ==
    \E c \in ConvIds, u \in ImageUploads :
        Call("set_active_image", c, Some(u), FALSE,
             set_active_image(db, c, u.image_base64, u.filename, clock))

CallClearImageContext ==
    \E c \in ConvIds :
        Call("clear_image_context", c, None, FALSE,
             clear_image_context(db, c, clock))

CallSetActiveCsv ==
    \E c \in ConvIds, u \in CsvUploads, fault \in BOOLEAN :
        Call("set_active_csv", c, Some(u), fault,
             set_active_csv(db, c, u.csv_data, u.filename, u.summary, clock, fault))

CallClearCsvContext ==
    \E c \in ConvIds :
        Call("clear_csv_context", c, None, FALSE,
             clear_csv_context(db, c, clock))

CallClearAllContext ==
    \E c \in ConvIds :
        Call("clear_all_context", c, None, FALSE,
             clear_all_context(db, c, clock))

StoreInit ==
    /\ db = EmptyDb
    /\ clock = 0
    /\ last = NoCall
    /\ chat = NoChat
    /\ csv = NoCsv

StoreNext ==
    \/ CallCreateConversation
    \/ CallAddMessage
    \/ CallDeleteConversation
    \/ CallSetActiveImage
    \/ CallClearImageContext
    \/ CallSetActiveCsv
    \/ CallClearCsvContext
    \/ CallClearAllContext

StoreSpec == StoreInit /\ [][StoreNext]_vars

-----------------------------------------------------------------------------
(* Context Store properties (StoreSpec) *)

HasCsvRow(d, c)   == RowsOf(d.csv_contexts, c) # {}
HasImageRow(d, c) == RowsOf(d.image_contexts, c) # {}

\* C7: in every committed state, for every session, has_active_csv is true
\* iff a csv_contexts row exists for the session, and csv_filename and
\* csv_summary are non-null exactly in that case.
C7_CsvFlagMatchesData ==
    \A c \in DOMAIN db.conversations :
        LET conv == db.conversations[c] IN
        /\ conv.has_active_csv = HasCsvRow(db, c)
        /\ (~IsNone(conv.csv_filename)) = HasCsvRow(db, c)
        /\ (~IsNone(conv.csv_summary)) = HasCsvRow(db, c)

\* a set_active_csv that failed part-way on a session holding a CSV context
C7_Witness ==
    /\ last.op = "set_active_csv"
    /\ ~IsNone(last.raised)
    /\ HasCsvRow(last.before, last.conv_id)
    /\ Exists(db, last.conv_id)
    /\ db.conversations[last.conv_id].has_active_csv

\* C8: set_active_image on a session that already holds an active image
\* succeeds and replaces it: the new bytes are returned by get_active_image,
\* the filename is the new one, the flag is true and the old row is gone.
C8_ReplaceImageSucceeds ==
    (/\ last.op = "set_active_image"
     /\ Exists(last.before, last.conv_id)
     /\ HasImageRow(last.before, last.conv_id))
    => (/\ IsNone(last.raised)
        /\ get_active_image(db, last.conv_id) = Some(The(last.arg).image_base64)
        /\ get_image_filename(db, last.conv_id) = Some(The(last.arg).filename)
        /\ db.conversations[last.conv_id].has_active_image
        /\ Cardinality(RowsOf(db.image_contexts, last.conv_id)) = 1
        /\ RowsOf(db.image_contexts, last.conv_id)
             \cap RowsOf(last.before.image_contexts, last.conv_id) = {})

\* C9: each session has at most one image row and at most one CSV row, and
\* a replacement issued on an existing session (the store not failing)
\* leaves exactly the value it wrote: the last write wins, whole.
C9_AtMostOneEach ==
    \A c \in ConvIds :
        /\ Cardinality(RowsOf(db.image_contexts, c)) <= 1
        /\ Cardinality(RowsOf(db.csv_contexts, c)) <= 1

C9_LastWriteWins ==
    /\ C9_AtMostOneEach
    /\ (last.op = "set_active_image" /\ Exists(last.before, last.conv_id))
       => (/\ get_active_image(db, last.conv_id) = Some(The(last.arg).image_base64)
           /\ get_image_filename(db, last.conv_id) = Some(The(last.arg).filename))
    /\ (last.op = "set_active_csv" /\ Exists(last.before, last.conv_id)
        /\ ~last.fault)
       => (/\ ~IsNone(get_active_csv(db, last.conv_id))
           /\ The(get_active_csv(db, last.conv_id)).filename = The(last.arg).filename
           /\ The(get_active_csv(db, last.conv_id)).sample_rows
                = The(last.arg).csv_data.sample_rows
           /\ get_csv_summary(db, last.conv_id) = Some(The(last.arg).summary)
           /\ db.conversations[last.conv_id].csv_filename = Some(The(last.arg).filename))

\* a set_active_csv that returned on an existing session
CsvWasSet ==
    /\ last.op = "set_active_csv"
    /\ IsNone(last.raised)
    /\ Exists(last.before, last.conv_id)

\* the fields of the context that the csv_contexts row keeps come back from
\* get_active_csv with the values that were set, from a row that is not
\* the one of the previous context
C11_StoredFieldsRoundTrip ==
    CsvWasSet =>
        LET got == get_active_csv(db, last.conv_id)
            ctx == The(last.arg).csv_data
        IN /\ ~IsNone(got)
           /\ The(got).filename = The(last.arg).filename
           /\ The(got).row_count = ctx.row_count
           /\ The(got).columns = ctx.columns
           /\ The(got).numeric_columns = ctx.numeric_columns
           /\ The(got).text_columns = ctx.text_columns
           /\ The(got).sample_rows = ctx.sample_rows
           /\ The(got).numeric_stats = ctx.numeric_stats
           /\ The(got).missing_values = ctx.missing_values
           /\ The(got).dtypes = ctx.dtypes
           /\ RowsOf(db.csv_contexts, last.conv_id)
                 \cap RowsOf(last.before.csv_contexts, last.conv_id) = {}

\* C11: get_active_csv after set_active_csv(ctx) returns every field of the
\* context with the value it had in ctx: filename, row count, the numeric,
\* textual and temporal column lists, sample rows, statistics, null counts
\* and type names, and nothing of a previously active context.
C11_RoundTripReturnsEveryField ==
    /\ C11_StoredFieldsRoundTrip
    /\ CsvWasSet =>
          LET got == The(get_active_csv(db, last.conv_id)) IN
          /\ "datetime_columns" \in DOMAIN got
          /\ got.datetime_columns = The(last.arg).csv_data.datetime_columns

\* two databases that differ at most in the last-update timestamps
SameButUpdatedAt(d1, d2) ==
    /\ DOMAIN d1.conversations = DOMAIN d2.conversations
    /\ \A c \in DOMAIN d1.conversations :
          [d1.conversations[c] EXCEPT !.updated_at = 0]
             = [d2.conversations[c] EXCEPT !.updated_at = 0]
    /\ d1.messages = d2.messages
    /\ d1.image_contexts = d2.image_contexts
    /\ d1.csv_contexts = d2.csv_contexts

NonDecreasing(ms) ==
    \A i \in 1..(Len(ms) - 1) : ms[i].timestamp <= ms[i + 1].timestamp

\* the successful appends of a behaviour are the rows of d.messages, in
\* the order they completed
AppendedTo(d, c) == SelectSeq(d.messages, LAMBDA m : m.conversation_id = c)

Qualifying(d, c) ==
    SelectSeq(AppendedTo(d, c), LAMBDA m :
        m.role = "user" /\ ~StartsWith(m.content, <<"[">>))

\* C14: in every state the title of a session is unset when no user
\* message with content not beginning with '[' has been appended, and is
\* otherwise the first 100 characters of the first such message, whatever
\* was appended, set or cleared afterwards.
C14_TitleFromFirstQualifying ==
    \A c \in DOMAIN db.conversations :
        db.conversations[c].title =
            IF Qualifying(db, c) = << >> THEN None
            ELSE Some(SubSeq(Qualifying(db, c)[1].content, 1,
                             Min(100, Len(Qualifying(db, c)[1].content))))

\* a marker, then a text longer than the title, then another user text
C14_Witness ==
    LET appended == AppendedTo(db, last.conv_id) IN
    /\ last.op = "add_message"
    /\ IsNone(last.raised)
    /\ Len(appended) = 3
    /\ appended[1].role = "user" /\ appended[1].content = <<"[", "x">>
    /\ appended[2].role = "user" /\ Len(appended[2].content) = 101
    /\ appended[3].role = "user" /\ appended[3].content = <<"h", "i">>
    /\ Len(The(db.conversations[last.conv_id].title)) = 100

\* C15: add_message on a session id that does not exist (never created,
\* or deleted) raises the not-found ValueError and leaves the database as
\* it was: no message, no session created or modified.
C15_AppendToMissingSessionFails ==
    (last.op = "add_message" /\ ~Exists(last.before, last.conv_id)) =>
        /\ last.raised = Some("ValueError")
        /\ IsNone(last.ret)
        /\ db = last.before

\* an append to a session that had messages and was deleted
C15_Witness ==
    /\ last.op = "add_message"
    /\ last.conv_id <= last.before.issued
    /\ ~Exists(last.before, last.conv_id)
    /\ ~IsNone(last.raised)
    /\ db.conversations # << >>

\* C16: delete_conversation of an existing session returns True and
\* removes it with its messages, its image and its CSV context:
\* get_conversation returns None and get_messages, get_active_image and
\* get_active_csv return empty / None for the id, the other sessions being
\* untouched; for an unknown id it returns False and changes nothing.
C16_DeleteCascades ==
    LET c == last.conv_id IN
    last.op = "delete_conversation" =>
        IF Exists(last.before, c)
        THEN /\ last.ret = Some(TRUE)
             /\ IsNone(get_conversation(db, c))
             /\ get_messages(db, c) = << >>
             /\ IsNone(get_active_image(db, c))
             /\ IsNone(get_active_csv(db, c))
             /\ \A m \in 1..Len(db.messages) : db.messages[m].conversation_id # c
             /\ \A o \in DOMAIN last.before.conversations \ {c} :
                   /\ get_conversation(db, o) = get_conversation(last.before, o)
                   /\ get_active_csv(db, o) = get_active_csv(last.before, o)
        ELSE /\ last.ret = Some(FALSE)
             /\ db = last.before

\* the deletion of a session that held a message, an image and a CSV context
C16_Witness ==
    /\ last.op = "delete_conversation"
    /\ last.ret = Some(TRUE)
    /\ get_messages(last.before, last.conv_id) # << >>
    /\ HasImageRow(last.before, last.conv_id)
    /\ HasCsvRow(last.before, last.conv_id)

\* the calls that modify a session
Modifying ==
    { "add_message", "set_active_image", "set_active_csv",
      "clear_image_context", "clear_csv_context" }

\* C17: get_all_conversations returns every session once, by last-update
\* timestamp descending; a successful add_message, set_active_image,
\* set_active_csv, clear_image_context or clear_csv_context on a session
\* advances its last-update timestamp, so that the session is listed first.
C17_ListedByLastUpdate ==
    LET listed == get_all_conversations(db) IN
    /\ Len(listed) = Cardinality(DOMAIN db.conversations)
    /\ { listed[i].id : i \in 1..Len(listed) } = DOMAIN db.conversations
    /\ \A i \in 1..(Len(listed) - 1) :
          listed[i].updated_at >= listed[i + 1].updated_at
    /\ \A i \in 1..Len(listed) :
          listed[i].updated_at = db.conversations[listed[i].id].updated_at
    /\ (/\ last.op \in Modifying
        /\ IsNone(last.raised)
        /\ Exists(last.before, last.conv_id)) =>
           /\ db.conversations[last.conv_id].updated_at
                 > last.before.conversations[last.conv_id].updated_at
           /\ listed[1].id = last.conv_id
           /\ \A i \in 2..Len(listed) :
                 listed[i].updated_at < listed[1].updated_at

\* the older of two sessions has its image slot cleared and is listed first
C17_Witness ==
    /\ last.op = "clear_image_context"
    /\ Cardinality(DOMAIN db.conversations) = 2
    /\ last.conv_id = 1
    /\ get_all_conversations(last.before)[1].id = 2
    /\ get_all_conversations(db)[1].id = 1

-----------------------------------------------------------------------------
(* CsvSpec: CSV uploads (api/routes/csv.py) and the read of the stored     *)
(* context by a chat turn                                                  *)

BadLine == [bad |-> TRUE, row |-> Row(NaN, NaN)]

LineTypes ==
    { Good(Row(a, b)) : a \in {Num(1), Num(2), NaN, Str("x")}, b \in {Str("x"), NaN} }
        \cup {BadLine}

\* n rows whose numeric column holds 1 in the first k rows and 2 after
RampContent(n, k) ==
    Content(<<"a", "b">>,
            [i \in 1..n |-> Good(Row(Num(IF i <= k THEN 1 ELSE 2), Str("x")))],
            FALSE)

\* n rows of which only the last has an empty field, in column b
TailNullContent(n) ==
    Content(<<"a", "b">>,
            [i \in 1..n |-> Good(Row(Num(1), IF i = n THEN NaN ELSE Str("x")))],
            FALSE)

\* n rows of which all but the first have an empty field, in column b
LeadValueContent(n) ==
    Content(<<"a", "b">>,
            [i \in 1..n |-> Good(Row(Num(1), IF i = 1 THEN Str("x") ELSE NaN))],
            FALSE)

\* three rows of six numeric columns, each column with empty fields: one
\* in a and e, two in b and f, three in c and d
WideContent ==
    LET empty(i, k) == IF i <= k THEN NaN ELSE Num(i)
    IN Content(<<"a", "b", "c", "d", "e", "f">>,
               [i \in 1..3 |->
                  Good([a |-> empty(i, 1), b |-> empty(i, 2), c |-> empty(i, 3),
                        d |-> empty(i, 3), e |-> empty(i, 1), f |-> empty(i, 2)])],
               FALSE)

\* content that neither parser reads: a quote left open in its data line
OpenQuoteContent ==
    Content(<<"a", "b">>, << Good(Row(Num(1), Str("x"))) >>, TRUE)

\* every upload of at most MaxRows lines, the unreadable ones, uploads
\* filling and exceeding the display cap and the context cap, and one with
\* more columns with empty fields than a summary lists
CsvContents ==
    UNION { { Content(<<"a", "b">>, lines, FALSE) : lines \in [1..n -> LineTypes] }
            : n \in 0..MaxRows }
      \cup { Content(<<"a", "b">>, << >>, TRUE),
             OpenQuoteContent,
             RampContent(MAX_ROWS_DISPLAY, MAX_ROWS_DISPLAY \div 2),
             RampContent(MAX_ROWS_DISPLAY + 1, MAX_ROWS_DISPLAY),
             TailNullContent(MAX_ROWS_CONTEXT + 1),
             LeadValueContent(MAX_ROWS_CONTEXT + 1),
             WideContent }

\* the uploads that precede the last one of a behaviour
SeedContents == {ScenarioContent, OtherContent}

CsvFilenames == <<"t1.csv", "t2.csv", "t3.csv">>

UPLOADED_CSV == <<"[", "U", "p", "l", "o", "a", "d", "e", "d", " ", "C", "S", "V", ":", " ">>

\* the request has been read and decoded (lines 45-68)
ReceiveCsv ==
    /\ csv.pc \in {"idle", "failed", "readback"}
    /\ csv.n < MaxUploads
    /\ \E content \in (IF csv.n + 1 < MaxUploads THEN SeedContents ELSE CsvContents),
          session_id \in {None} \cup {Some(c) : c \in ConvIds} :
          csv' = [ pc |-> "read", n |-> csv.n + 1, content |-> content,
                   filename |-> CsvFilenames[csv.n + 1], session_id |-> session_id,
                   sid |-> 0, result |-> None, got |-> None ]
    /\ UNCHANGED <<db, clock, last, chat>>

\* a new session whatever identifier is supplied
AlwaysCreate(d, session_id, now) ==
    LET r == create_conversation(d, now)
    IN [db |-> r.db, session_id |-> The(r.ret)]

\* get-or-create of the routes: the supplied session if it exists, else a new one
GetOrCreate(d, session_id, now) ==
    IF ~IsNone(session_id) /\ Exists(d, The(session_id))
    THEN [db |-> d, session_id |-> The(session_id)]
    ELSE LET r == create_conversation(d, now)
         IN [db |-> r.db, session_id |-> The(r.ret)]

\* the session got or created before the content is parsed
UploadCsvCreatesFirst(d, content, filename, session_id, now) ==
    LET conv == GetOrCreate(d, session_id, now)
        sid  == conv.session_id
        parsed == parse_csv(content, filename)
    IN IF ~IsNone(parsed.raised)
       THEN [db |-> conv.db, status |-> 400, session_id |-> 0, result |-> None]
       ELSE LET csv_data == The(parsed.ret).csv_data
                summary  == The(parsed.ret).summary
                d1 == set_active_csv(conv.db, sid, csv_data, filename,
                                     summary.text_summary, now + 1, FALSE).db
                d2 == add_message(d1, sid, "user",
                                  UPLOADED_CSV \o <<filename, "]">>, None,
                                  Some([filename |-> filename, rows |-> summary.row_count,
                                        columns |-> summary.column_count]),
                                  None, now + 2).db
                d3 == add_message(d2, sid, "assistant",
                                  <<"I've loaded the CSV file ", filename,
                                    summary.text_summary, "You can now ask me questions">>,
                                  None, None, None, now + 3).db
            IN [db |-> d3, status |-> 200, session_id |-> sid, result |-> parsed.ret]

\* upload_csv, lines 70-112: parse, get or create the session, store the
\* context, append the marker message and the acknowledgment
upload_csv(d, content, filename, session_id, now) ==
    LET parsed == parse_csv(content, filename) IN
    IF ~IsNone(parsed.raised)
    THEN [db |-> d, status |-> 400, session_id |-> 0, result |-> None]
    ELSE LET csv_data == The(parsed.ret).csv_data
             summary  == The(parsed.ret).summary
             conv == GetOrCreate(d, session_id, now)
             sid  == conv.session_id
             d1 == set_active_csv(conv.db, sid, csv_data, filename,
                                  summary.text_summary, now + 1, FALSE).db
             d2 == add_message(d1, sid, "user",
                               UPLOADED_CSV \o <<filename, "]">>, None,
                               Some([filename |-> filename, rows |-> summary.row_count,
                                     columns |-> summary.column_count]),
                               None, now + 2).db
             d3 == add_message(d2, sid, "assistant",
                               <<"I've loaded the CSV file ", filename,
                                 summary.text_summary, "You can now ask me questions">>,
                               None, None, None, now + 3).db
         IN [db |-> d3, status |-> 200, session_id |-> sid, result |-> parsed.ret]

UploadCsv ==
    /\ csv.pc = "read"
    /\ LET r == upload_csv(db, csv.content, csv.filename, csv.session_id, clock) IN
       /\ db' = r.db
       /\ clock' = clock + 4
       /\ csv' = [csv EXCEPT !.pc = IF r.status = 200 THEN "done" ELSE "failed",
                             !.sid = r.session_id,
                             !.result = r.result]
    /\ UNCHANGED <<last, chat>>

\* a chat turn reads the active CSV context of the session (chat.py line 68)
ReadActiveCsv ==
    /\ csv.pc = "done"
    /\ csv' = [csv EXCEPT !.pc = "readback", !.got = get_active_csv(db, csv.sid)]
    /\ UNCHANGED <<db, clock, last, chat>>

CsvInit ==
    /\ db = EmptyDb
    /\ clock = 0
    /\ last = NoCall
    /\ chat = NoChat
    /\ csv = [ pc |-> "idle", n |-> 0, content |-> Content(<< >>, << >>, FALSE),
               filename |-> "", session_id |-> None, sid |-> 0,
               result |-> None, got |-> None ]

CsvNext ==
    \/ ReceiveCsv
    \/ UploadCsv
    \/ ReadActiveCsv

CsvSpec == CsvInit /\ [][CsvNext]_vars

-----------------------------------------------------------------------------
(* Tabular Summarizer properties (CsvSpec) *)

\* the statistics of one column computed from stored sample rows: the
\* numbers of the column, the other cells counted as missing
SampleStats(sample_rows, col) ==
    LET cells == [i \in 1..Len(sample_rows) |-> sample_rows[i][col]]
        nums  == SelectSeq(cells, LAMBDA c : c.kind = "num")
        vals  == [i \in 1..Len(nums) |-> nums[i].num]
    IN ColumnStats(vals, Len(cells) - Len(vals))

\* the columns of a context that have a number among the sample rows
SampleNumeric(ctx) ==
    {c \in {ctx.numeric_columns[i] : i \in 1..Len(ctx.numeric_columns)} :
        \E i \in 1..Len(ctx.sample_rows) : ctx.sample_rows[i][c].kind = "num"}

StatsMatchSample(ctx) ==
    /\ DOMAIN ctx.numeric_stats = SampleNumeric(ctx)
    /\ \A col \in DOMAIN ctx.numeric_stats :
           ctx.numeric_stats[col] = SampleStats(ctx.sample_rows, col)

\* C10 as stated: after set_active_csv then get_active_csv, the numeric
\* statistics returned equal the statistics of the returned sample rows.
C10_StatsEqualSampleStats ==
    (csv.pc = "readback" /\ ~IsNone(csv.got)) => StatsMatchSample(The(csv.got))

\* C10 amended: the same, for tables of at most MAX_ROWS_DISPLAY rows (the
\* sample then holds every row); the returned statistics are in every case
\* the ones summarize computed.
C10_StatsEqualSampleStatsWithinCap ==
    (csv.pc = "readback" /\ ~IsNone(csv.got)) =>
        /\ The(csv.got).numeric_stats = The(csv.result).csv_data.numeric_stats
        /\ The(csv.got).row_count <= MAX_ROWS_DISPLAY => StatsMatchSample(The(csv.got))

\* a stored table of two rows or more with a numeric column holding a null
C10_Witness ==
    /\ csv.pc = "readback"
    /\ ~IsNone(csv.got)
    /\ The(csv.got).row_count >= 2
    /\ The(csv.got).row_count <= MAX_ROWS_DISPLAY
    /\ "a" \in DOMAIN The(csv.got).numeric_stats
    /\ The(csv.got).numeric_stats["a"].missing > 0

-----------------------------------------------------------------------------
(* services/llm_service.py: the Streaming Completion Orchestrator *)

PRIMARY_MODEL  == "meta-llama/llama-4-scout-17b-16e-instruct"
VISION_MODEL   == "meta-llama/llama-4-scout-17b-16e-instruct"
FALLBACK_MODEL == "llama-3.3-70b-versatile"
SUPPORTS_VISION == TRUE
HISTORY_WINDOW == 15
PROMPT_SAMPLE_ROWS == 5

\* The content of a chat-completion message: a str, or a list of parts
TextContent(text)  == [kind |-> "str",  text |-> text,  parts |-> << >>]
ListContent(parts) == [kind |-> "list", text |-> << >>, parts |-> parts]
TextPart(text)  == [type |-> "text",      text |-> text,  url |-> << >>]
ImagePart(url)  == [type |-> "image_url", text |-> << >>, url |-> url]
ChatMessage(role, content) == [role |-> role, content |-> content]

\* truthiness of an optional str or dict
Truthy(o) == ~IsNone(o) /\ The(o) # << >>

\* the "Currently Loaded CSV Data" block of the system prompt (lines 317-373)
CsvInfo(csv_context, csv_summary) ==
    LET missing_values == csv_context.missing_values
        cols_with_missing ==
            SelectSeq(csv_context.columns, LAMBDA c : missing_values[c] > 0)
        top == Prefix(SortedMissing(cols_with_missing, missing_values),
                      SUMMARY_MISSING_COLS)
        row_count == csv_context.row_count
    IN [ filename        |-> csv_context.filename,
         row_count       |-> row_count,
         column_count    |-> csv_context.column_count,
         columns         |-> csv_context.columns,
         numeric_columns |-> csv_context.numeric_columns,
         text_columns    |-> csv_context.text_columns,
         numeric_stats   |-> csv_context.numeric_stats,
         missing         |-> [i \in 1..Len(top) |->
                                <<top[i], missing_values[top[i]],
                                  IF row_count > 0
                                  THEN RoundDiv(1000 * missing_values[top[i]], row_count)
                                  ELSE 0>>],
         sample_rows     |-> Prefix(csv_context.sample_rows, PROMPT_SAMPLE_ROWS),
         summary         |-> csv_summary ]

\* the base prompt alone, whatever the session holds
BasePromptOnly(csv_context, csv_summary) == <<"base_prompt">>

\* _build_system_prompt: the base prompt, then the CSV block when a CSV
\* context and a summary are both present
_build_system_prompt(csv_context, csv_summary) ==
    <<"base_prompt">>
      \o (IF Truthy(csv_context) /\ Truthy(csv_summary)
          THEN <<CsvInfo(The(csv_context), The(csv_summary))>>
          ELSE << >>)

\* the marker messages left out of the payload (line 52)
UPLOADED == <<"[", "U", "p", "l", "o", "a", "d", "e", "d">>
LOADED   == <<"[", "L", "o", "a", "d", "e", "d">>

\* generate_response_stream, lines 45-75: the payload of the primary call
BuildMessages(message, history, image_base64, csv_context, csv_summary) ==
    LET system_prompt == _build_system_prompt(csv_context, csv_summary)
        kept == SelectSeq(Suffix(history, HISTORY_WINDOW),
                          LAMBDA msg : ~(StartsWith(msg.content, UPLOADED)
                                         \/ StartsWith(msg.content, LOADED)))
    IN <<ChatMessage("system", TextContent(system_prompt))>>
       \o [i \in 1..Len(kept) |->
             ChatMessage(kept[i].role, TextContent(kept[i].content))]
       \o (IF Truthy(image_base64) /\ SUPPORTS_VISION
           THEN <<ChatMessage("user",
                    ListContent(<<TextPart(message),
                                  ImagePart(<<"data:image/jpeg;base64,",
                                              The(image_base64)>>)>>))>>
           ELSE <<ChatMessage("user", TextContent(message))>>)

\* line 80
ModelToUse(image_base64) ==
    IF Truthy(image_base64) /\ SUPPORTS_VISION THEN VISION_MODEL ELSE PRIMARY_MODEL

IMAGE_PLACEHOLDER == <<"[image sent but the model cannot process it]", "\n">>

\* the payload handed on to the fallback model as it is
FallbackMessagesUnchanged(messages) == messages

\* lines 99-106: the payload of the fallback call
FallbackMessages(messages) ==
    [i \in 1..Len(messages) |->
        IF messages[i].content.kind = "list"
        THEN LET parts == messages[i].content.parts
                 texts == SelectSeq(parts, LAMBDA c : c.type = "text")
                 text_content == IF texts = << >> THEN << >> ELSE texts[1].text
             IN ChatMessage(messages[i].role,
                            TextContent(IMAGE_PLACEHOLDER \o text_content))
        ELSE messages[i]]

\* line 121: the apology built from the primary model's exception
Apology(e) == <<"I apologize, but I encountered an error: ", e>>

\* the fallback's exception leaving the orchestrator instead of the apology
FallbackErrorRaises(e) == [yield |-> None, raise |-> Some("Exception")]

\* lines 120-121: what the handler of a failed fallback call does
OnFallbackError(e) == [yield |-> Some(Apology(e)), raise |-> None]

\* The states of one completion request
LlmPaths ==
    { <<"STARTED", "STREAMING", "COMPLETED">>,
      <<"STARTED", "STREAMING", "FAILED_OVER", "STREAMING", "COMPLETED">>,
      <<"STARTED", "STREAMING", "FAILED_OVER", "STREAMING", "ERRORED">> }

-----------------------------------------------------------------------------
(* api/routes/chat.py: send_message_stream and its generator *)

\* the stored image preferred to the one of the request
StoredFirst(a, b) == IF b # << >> /\ b[1] # << >> THEN b ELSE a

\* a or b
Or(a, b) == IF Truthy(a) THEN a ELSE b

Event(kind, content) == [kind |-> kind, content |-> content]

\* the events sent to the consumer, out of everything the request did
EventKinds == {"session", "chunk", "done", "error"}
Events(trace) == SelectSeq(trace, LAMBDA e : e.kind \in EventKinds)

\* lines 49-73: resolve the session, store the user message, read the context
send_message_stream(d, message, session_id, image_base64, now) ==
    LET conv == GetOrCreate(d, session_id, now)
        sid  == conv.session_id
        d1   == add_message(conv.db, sid, "user", message, None, None, None, now + 1).db
        active_image == get_active_image(d1, sid)
    IN [ db           |-> d1,
         session_id   |-> sid,
         active_csv   |-> get_active_csv(d1, sid),
         csv_summary  |-> get_csv_summary(d1, sid),
         history      |-> get_message_history_for_llm(d1, sid, HISTORY_LIMIT),
         image_to_use |-> Or(image_base64, active_image) ]

\* history
Whole(s) == s

\* history[:-1]
AllButLast(s) == SubSeq(s, 1, Len(s) - 1)

\* the response is saved and announced although the database refused it
GenFinishIgnoresFailure(d, session_id, full_response, now) ==
    LET r == add_message(d, session_id, "assistant", full_response,
                         None, None, None, now)
    IN [ db |-> r.db,
         emitted |-> << Event("persist", full_response), Event("done", <<session_id>>),
                        Event("error", <<"Error: ", "late">>) >> ]

\* the completion signal is sent before the response is saved
GenFinishDoneFirst(d, session_id, full_response, now) ==
    LET r == add_message(d, session_id, "assistant", full_response,
                         None, None, None, now)
    IN IF IsNone(r.raised)
       THEN [ db |-> r.db,
              emitted |-> << Event("done", <<session_id>>),
                             Event("persist", full_response) >> ]
       ELSE [ db |-> d, emitted |-> << Event("error", <<"Error: ", The(r.raised)>>) >> ]

\* lines 92-100, after the orchestrator's sequence is exhausted: save the
\* response and send done, or send error when saving raises
GenFinish(d, session_id, full_response, now) ==
    LET r == add_message(d, session_id, "assistant", full_response,
                         None, None, None, now)
    IN IF IsNone(r.raised)
       THEN [ db |-> r.db,
              emitted |-> << Event("persist", full_response),
                             Event("done", <<session_id>>) >> ]
       ELSE [ db |-> d, emitted |-> << Event("error", <<"Error: ", The(r.raised)>>) >> ]

\* the partial response is saved when the consumer goes away
PersistOnDisconnect(d, session_id, full_response, now) ==
    LET r == add_message(d, session_id, "assistant", full_response,
                         None, None, None, now)
    IN [ db |-> r.db,
         emitted |-> << Event("disconnect", << >>) >>
                     \o (IF IsNone(r.raised) THEN << Event("persist", full_response) >>
                         ELSE << >>) ]

\* the consumer disconnects: the generator is closed at the yield or await
\* it is suspended at (GeneratorExit / CancelledError, which `except
\* Exception` of line 98 and of llm_service.py lines 94 and 120 do not
\* catch); nothing of lines 92-100 runs
OnDisconnect(d, session_id, full_response, now) ==
    [ db |-> d, emitted |-> << Event("disconnect", << >>) >> ]

\* a chunk is put in front of what was accumulated before
OnChunkNewestFirst(c, chunk) ==
    [c EXCEPT !.full_response = chunk \o @,
              !.out = Append(@, chunk),
              !.trace = Append(@, Event("chunk", chunk))]

\* line 89-90: a chunk of the orchestrator is accumulated and sent on
OnChunk(c, chunk) ==
    [c EXCEPT !.full_response = @ \o chunk,
              !.out = Append(@, chunk),
              !.trace = Append(@, Event("chunk", chunk))]

\* the primary model's exception leaving the orchestrator, to be reported
\* by line 98 of the generator
PrimaryErrorEscapes(c, e) ==
    [c EXCEPT !.pc = "sent_terminal",
              !.escaped = Some(e),
              !.trace = Append(@, Event("error", <<"Error: ", e>>))]

\* the handler of a failed primary call starts the response afresh
OnPrimaryErrorStartsAfresh(c, e) ==
    [c EXCEPT !.pc = "failing_over",
              !.error = Some(e),
              !.full_response = << >>,
              !.states = Append(@, "FAILED_OVER")]

\* llm_service.py line 94: the handler of a failed primary call is entered
OnPrimaryError(c, e) ==
    [c EXCEPT !.pc = "failing_over",
              !.error = Some(e),
              !.states = Append(@, "FAILED_OVER")]

ChatTexts == { <<"h", "i">>, <<"[", "x">> }
FreshImages == { None, Some(<<"imgP">>) }
ProviderErrors == { "e1" }

\* the i-th delta of the provider (the code looks only at its emptiness)
Delta(i) == <<"delta", i>>

IdleChat ==
    [ pc |-> "idle", n |-> 0, message |-> << >>, session_id |-> 0,
      request_session_id |-> None, image_base64 |-> None,
      image_to_use |-> None, active_csv |-> None, csv_summary |-> None,
      history |-> << >>, full_response |-> << >>, trace |-> << >>,
      states |-> << >>, calls |-> << >>, out |-> << >>, deltas |-> 0,
      error |-> None, escaped |-> None ]

\* create_session, lines 123-130, between two chat-stream requests
CreateSession ==
    /\ chat.pc \in {"idle", "closed", "cancelled"}
    /\ db.issued < MaxConvs
    /\ db' = create_conversation(db, clock).db
    /\ clock' = clock + 1
    /\ UNCHANGED <<last, chat, csv>>

ChatSend ==
    /\ chat.pc \in {"idle", "closed", "cancelled"}
    /\ chat.n < MaxTurns
    /\ \E message \in ChatTexts, image_base64 \in FreshImages,
          session_id \in {None} \cup {Some(c) : c \in ConvIds} :
          /\ (IsNone(session_id) \/ ~Exists(db, The(session_id)))
                => db.issued < MaxConvs
          /\ LET r == send_message_stream(db, message, session_id, image_base64, clock)
             IN /\ db' = r.db
                /\ chat' = [IdleChat EXCEPT
                              !.pc = "ready", !.n = chat.n + 1,
                              !.message = message, !.session_id = r.session_id,
                              !.image_base64 = image_base64,
                              !.image_to_use = r.image_to_use,
                              !.active_csv = r.active_csv,
                              !.csv_summary = r.csv_summary,
                              !.history = r.history]
    /\ clock' = clock + 2
    /\ UNCHANGED <<last, csv>>

\* lines 76-79: the generator starts and sends the session event
GenStart ==
    /\ chat.pc = "ready"
    /\ chat' = [chat EXCEPT !.pc = "sent_session",
                            !.trace = <<Event("session", <<chat.session_id>>)>>]
    /\ UNCHANGED <<db, clock, last, csv>>

\* llm_service.py lines 45-75: the orchestrator is entered and builds the payload
OrchStart ==
    /\ chat.pc = "sent_session"
    /\ chat' = [chat EXCEPT !.pc = "built", !.states = <<"STARTED">>]
    /\ UNCHANGED <<db, clock, last, csv>>

\* lines 80-88: the primary call is issued
PrimaryCall ==
    /\ chat.pc = "built"
    /\ chat' = [chat EXCEPT
                  !.pc = "await_primary",
                  !.states = Append(@, "STREAMING"),
                  !.calls = << [ model |-> ModelToUse(chat.image_to_use),
                                 messages |-> BuildMessages(chat.message,
                                                 AllButLast(chat.history),
                                                 chat.image_to_use,
                                                 chat.active_csv,
                                                 chat.csv_summary) ] >>]
    /\ UNCHANGED <<db, clock, last, csv>>

\* the provider accepts the call and opens the stream
CreateOk ==
    /\ chat.pc \in {"await_primary", "await_fallback"}
    /\ chat' = [chat EXCEPT !.pc = IF chat.pc = "await_primary"
                                   THEN "primary_stream" ELSE "fallback_stream"]
    /\ UNCHANGED <<db, clock, last, csv>>

\* lines 90-92 and 116-118: a delta arrives; one with content is yielded
ProviderDelta ==
    /\ chat.pc \in {"primary_stream", "fallback_stream"}
    /\ chat.deltas < MaxDeltas
    /\ \E empty \in BOOLEAN :
          chat' = IF empty
                  THEN [chat EXCEPT !.deltas = @ + 1]
                  ELSE [OnChunk(chat, Delta(chat.deltas + 1)) EXCEPT !.deltas = @ + 1]
    /\ UNCHANGED <<db, clock, last, csv>>

\* line 94: the primary call raises, at creation or in mid-stream
PrimaryError ==
    /\ chat.pc \in {"await_primary", "primary_stream"}
    /\ \E e \in ProviderErrors : chat' = OnPrimaryError(chat, e)
    /\ UNCHANGED <<db, clock, last, csv>>

\* lines 97-114: the payload is rebuilt and the fallback call issued
FallbackCall ==
    /\ chat.pc = "failing_over"
    /\ chat' = [chat EXCEPT
                  !.pc = "await_fallback",
                  !.states = Append(@, "STREAMING"),
                  !.calls = Append(@, [ model |-> FALLBACK_MODEL,
                                        messages |-> FallbackMessages(chat.calls[1].messages) ])]
    /\ UNCHANGED <<db, clock, last, csv>>

\* lines 120-121: the fallback call raises, at creation or in mid-stream
FallbackError ==
    /\ chat.pc \in {"await_fallback", "fallback_stream"}
    /\ LET h == OnFallbackError(The(chat.error)) IN
       chat' = IF ~IsNone(h.yield)
               THEN [OnChunk(chat, The(h.yield)) EXCEPT
                        !.pc = "apology_sent", !.states = Append(@, "ERRORED")]
               ELSE [chat EXCEPT
                        !.pc = "sent_terminal", !.states = Append(@, "ERRORED"),
                        !.escaped = h.raise,
                        !.trace = Append(@, Event("error", <<"Error: ", The(h.raise)>>))]
    /\ UNCHANGED <<db, clock, last, csv>>

\* the orchestrator's sequence is exhausted and lines 92-100 run
Finish(states) ==
    LET r == GenFinish(db, chat.session_id, chat.full_response, clock) IN
    /\ db' = r.db
    /\ clock' = clock + 1
    /\ chat' = [chat EXCEPT !.pc = "sent_terminal",
                            !.states = states,
                            !.trace = @ \o <<Event("exhausted", << >>)>> \o r.emitted]
    /\ UNCHANGED <<last, csv>>

\* the provider's stream ends
StreamEnd ==
    /\ chat.pc \in {"primary_stream", "fallback_stream"}
    /\ Finish(Append(chat.states, "COMPLETED"))

\* the request that ended with the apology reports an error and saves
\* nothing
ApologyEndReportsError ==
    /\ chat.pc = "apology_sent"
    /\ chat' = [chat EXCEPT !.pc = "sent_terminal",
                            !.trace = @ \o << Event("exhausted", << >>),
                                              Event("error", <<"Error: ", The(chat.error)>>) >>]
    /\ UNCHANGED <<db, clock, last, csv>>

\* the orchestrator is resumed after the apology and returns
ApologyEnd ==
    /\ chat.pc = "apology_sent"
    /\ Finish(chat.states)

\* the generator is resumed after its terminal event and returns
GenClose ==
    /\ chat.pc = "sent_terminal"
    /\ chat' = [chat EXCEPT !.pc = "closed"]
    /\ UNCHANGED <<db, clock, last, csv>>

\* the places where the generator is suspended (a yield, or an await on the provider)
Suspended ==
    { "ready", "sent_session", "await_primary", "primary_stream",
      "await_fallback", "fallback_stream", "apology_sent", "sent_terminal" }

Disconnect ==
    /\ chat.pc \in Suspended
    /\ LET r == OnDisconnect(db, chat.session_id, chat.full_response, clock) IN
       /\ db' = r.db
       /\ chat' = [chat EXCEPT !.pc = "cancelled",
                               !.trace = @ \o r.emitted]
    /\ UNCHANGED <<clock, last, csv>>

\* another request deletes the session while the stream is open
\* (delete_session, lines 146-153)
OtherDeletesSession ==
    /\ chat.pc \in Suspended
    /\ Exists(db, chat.session_id)
    /\ db' = delete_conversation(db, chat.session_id).db
    /\ UNCHANGED <<clock, last, chat, csv>>

Init ==
    /\ db = EmptyDb
    /\ clock = 0
    /\ last = NoCall
    /\ chat = IdleChat
    /\ csv = NoCsv

Next ==
    \/ CreateSession
    \/ ChatSend
    \/ GenStart
    \/ OrchStart
    \/ PrimaryCall
    \/ CreateOk
    \/ ProviderDelta
    \/ PrimaryError
    \/ FallbackCall
    \/ FallbackError
    \/ StreamEnd
    \/ ApologyEnd
    \/ GenClose
    \/ Disconnect
    \/ OtherDeletesSession

Spec == Init /\ [][Next]_vars

-----------------------------------------------------------------------------
(* PayloadSpec: the payload assembled for a chat-stream request that       *)
(* arrives on a session with an earlier conversation, an uploaded CSV and  *)
(* an uploaded image                                                       *)

\* the messages of `script` appended to conversation c, one per clock tick
RECURSIVE Replay(_, _, _)
Replay(d, c, script) ==
    IF script = << >> THEN d
    ELSE LET m == script[Len(script)]
         IN CHOOSE after \in
                { add_message(before, c, m.role, m.content, None, None, None,
                              before.conversations[c].updated_at + 1).db :
                    before \in { Replay(d, c, SubSeq(script, 1, Len(script) - 1)) } } :
                TRUE

\* earlier conversations: every one of at most MaxStored messages, longer
\* ones that exceed the window of the payload and the limit of the fetch,
\* one of them with a marker message among the recent ones, and two whose
\* user messages fill and exceed the preview of the session list
SeedScripts ==
    LET texts == { [role |-> "user", content |-> <<"h", "i">>],
                   [role |-> "user", content |-> <<"[", "x">>],
                   [role |-> "user", content |-> UPLOADED \o <<" image: a.png]">>],
                   [role |-> "assistant", content |-> <<"h", "i">>],
                   [role |-> "assistant", content |-> <<"[", "1", "]">>] }
        Long(n) == [i \in 1..n |->
                      [role |-> IF i % 2 = 1 THEN "user" ELSE "assistant",
                       content |-> [k \in 1..i |-> "m"]]]
        marker == [role |-> "user",
                   content |-> LOADED \o <<" CSV from URL: data.csv]">>]
        Said(role, n) == [role |-> role, content |-> [k \in 1..n |-> "p"]]
    IN UNION { [1..n -> texts] : n \in 0..MaxStored }
         \cup { Long(HISTORY_WINDOW + 1), Long(HISTORY_LIMIT + 1),
                [Long(HISTORY_LIMIT + 1) EXCEPT ![HISTORY_LIMIT \div 2] = marker],
                << Said("assistant", PREVIEW_LEN + 2), Said("user", PREVIEW_LEN),
                   Said("user", PREVIEW_LEN + 1) >>,
                << marker, Said("user", PREVIEW_LEN + 1), Said("user", PREVIEW_LEN) >> }

\* the databases left on session 1 by a CSV upload or none (upload_csv),
\* possibly cleared again (clear_csv_context), an earlier conversation, and
\* an image upload or none (set_active_image)
SeedDbs ==
    LET created == create_conversation(EmptyDb, 0).db
        uploaded == { created } \cup
                    { upload_csv(created, content, "t1.csv", Some(1), 1).db :
                        content \in { ScenarioContent,
                                      RampContent(PROMPT_SAMPLE_ROWS + 1, 1) } }
        cleared == { clear_csv_context(d, 1, d.conversations[1].updated_at + 1).db
                       : d \in { upload_csv(created, ScenarioContent, "t1.csv",
                                            Some(1), 1).db } }
        talked == { Replay(d, 1, script) :
                      d \in uploaded \cup cleared, script \in SeedScripts }
    IN talked \cup
       { set_active_image(d, 1, <<"imgA">>, "a.png",
                          d.conversations[1].updated_at + 1).db : d \in talked }

PayloadInit ==
    /\ db \in SeedDbs
    /\ clock = db.conversations[1].updated_at + 1
    /\ last = NoCall
    /\ chat = IdleChat
    /\ csv = NoCsv

\* the request up to the moment the payload is handed to the provider
PayloadNext ==
    \/ ChatSend
    \/ GenStart
    \/ OrchStart
    \/ PrimaryCall

PayloadSpec == PayloadInit /\ [][PayloadNext]_vars

-----------------------------------------------------------------------------
(* EntrySpec: the requests that get or create a session (the chat stream,  *)
(* the CSV upload, the CSV load from a URL, the image upload), in any      *)
(* order, and the deletion of a session                                    *)

MaxEntries == 2        \* requests in one behaviour of EntrySpec

\* load_csv_from_url, lines 157-200, once the content has been fetched
load_csv_from_url(d, content, filename, session_id, now) ==
    LET parsed == parse_csv(content, filename) IN
    IF ~IsNone(parsed.raised)
    THEN [db |-> d, status |-> 400, session_id |-> 0, result |-> None]
    ELSE LET csv_data == The(parsed.ret).csv_data
             summary  == The(parsed.ret).summary
             conv == GetOrCreate(d, session_id, now)
             sid  == conv.session_id
             d1 == set_active_csv(conv.db, sid, csv_data, filename,
                                  summary.text_summary, now + 1, FALSE).db
             d2 == add_message(d1, sid, "user",
                               LOADED \o <<" CSV from URL: ", filename, "]">>, None,
                               Some([filename |-> filename, rows |-> summary.row_count,
                                     columns |-> summary.column_count, url |-> "url"]),
                               None, now + 2).db
             d3 == add_message(d2, sid, "assistant",
                               <<"I've loaded the CSV file from the URL.", filename,
                                 summary.text_summary, "You can now ask me questions">>,
                               None, None, None, now + 3).db
         IN [db |-> d3, status |-> 200, session_id |-> sid, result |-> parsed.ret]

EntryBudget == clock < 4 * MaxEntries

EntryImage == [image_base64 |-> <<"imgA">>, filename |-> "a.png"]

EntrySessionIds == {None} \cup {Some(c) : c \in ConvIds}

MayCreate(session_id) ==
    (IsNone(session_id) \/ ~Exists(db, The(session_id))) => db.issued < MaxConvs

\* a CSV request from its decoded content to its response: an upload
\* (named t1.csv) or a load from a URL (named data.csv)
CsvRequest ==
    /\ EntryBudget
    /\ \E content \in {ScenarioContent, OpenQuoteContent,
                       Content(<<"a", "b">>, << >>, TRUE)},
          session_id \in EntrySessionIds, url \in BOOLEAN :
          /\ MayCreate(session_id)
          /\ \E r \in { IF url
                         THEN load_csv_from_url(db, content, "data.csv", session_id, clock)
                         ELSE upload_csv(db, content, "t1.csv", session_id, clock) } :
                /\ db' = r.db
                /\ csv' = [ pc |-> IF r.status = 200 THEN "done" ELSE "failed",
                            n |-> csv.n + 1, content |-> content,
                            filename |-> IF url THEN "data.csv" ELSE "t1.csv",
                            session_id |-> session_id,
                            sid |-> r.session_id, result |-> r.result, got |-> None ]
    /\ clock' = clock + 4
    /\ UNCHANGED <<last, chat>>

\* upload_image, lines 27-72: get or create the session and store the
\* image; the request then awaits the analysis of the image
UploadImage ==
    /\ EntryBudget
    /\ last.op # "upload_image"
    /\ \E u \in {EntryImage}, session_id \in EntrySessionIds :
          /\ MayCreate(session_id)
          /\ LET conv == GetOrCreate(db, session_id, clock)
                 r == set_active_image(conv.db, conv.session_id, u.image_base64,
                                       u.filename, clock + 1)
             IN /\ db' = r.db
                /\ last' = [ op |-> IF IsNone(r.raised) THEN "upload_image"
                                    ELSE "upload_image_failed",
                             conv_id |-> conv.session_id,
                             arg |-> Some([upload |-> u, session_id |-> session_id,
                                           at |-> clock]),
                             fault |-> FALSE, raised |-> r.raised, ret |-> None,
                             before |-> db ]
    /\ clock' = clock + 4
    /\ UNCHANGED <<chat, csv>>

\* upload_image, lines 74-86: the analysis has come back (analyze_image
\* returns a text also when the provider fails) and the two messages are
\* appended
ImageAnalysed ==
    /\ last.op = "upload_image"
    /\ LET filename == The(last.arg).upload.filename
           r1 == add_message(db, last.conv_id, "user",
                             UPLOADED \o <<" image: ", filename, "]">>,
                             Some(<<"data:", The(last.arg).upload.image_base64>>),
                             None, None, clock)
           r2 == add_message(r1.db, last.conv_id, "assistant", <<"analysis">>,
                             None, None, None, clock + 1)
       IN IF ~IsNone(r1.raised)
          THEN /\ db' = r1.db
               /\ last' = [last EXCEPT !.op = "upload_image_failed",
                                       !.raised = r1.raised]
          ELSE /\ db' = r2.db
               /\ last' = [last EXCEPT !.op = "upload_image_done"]
    /\ clock' = clock + 2
    /\ UNCHANGED <<chat, csv>>

\* delete_session (chat.py lines 146-153) of the session of the image
\* upload, while that request awaits the analysis
DeleteSession ==
    /\ last.op = "upload_image"
    /\ Exists(db, last.conv_id)
    /\ db' = delete_conversation(db, last.conv_id).db
    /\ UNCHANGED <<clock, last, chat, csv>>

\* send_message_stream, lines 43-73, of a request that follows the
\* announcement of the previous one
ChatRequest ==
    /\ EntryBudget
    /\ chat.pc \in {"idle", "sent_session"}
    /\ \E session_id \in EntrySessionIds :
          /\ MayCreate(session_id)
          /\ LET r == send_message_stream(db, <<"h", "i">>, session_id, None, clock)
             IN /\ db' = r.db
                /\ chat' = [IdleChat EXCEPT
                              !.pc = "ready", !.n = chat.n + 1,
                              !.message = <<"h", "i">>,
                              !.session_id = r.session_id,
                              !.request_session_id = session_id,
                              !.image_to_use = r.image_to_use,
                              !.active_csv = r.active_csv,
                              !.csv_summary = r.csv_summary,
                              !.history = r.history]
    /\ clock' = clock + 4
    /\ UNCHANGED <<last, csv>>

EntryInit ==
    /\ db = EmptyDb
    /\ clock = 0
    /\ last = NoCall
    /\ chat = IdleChat
    /\ csv = [ pc |-> "idle", n |-> 0, content |-> Content(<< >>, << >>, FALSE),
               filename |-> "", session_id |-> None, sid |-> 0,
               result |-> None, got |-> None ]

EntryNext ==
    \/ ChatRequest
    \/ GenStart
    \/ CsvRequest
    \/ UploadImage
    \/ ImageAnalysed
    \/ DeleteSession

EntrySpec == EntryInit /\ [][EntryNext]_vars

-----------------------------------------------------------------------------
(* TurnSpec: one chat-stream request on a session, its repository calls    *)
(* taken one by one, while requests served by another worker process of    *)
(* the same database call the repository for the same session.  Inside one *)
(* process the calls of lines 64-70 run without suspension; the database   *)
(* is shared by every process of the deployment, and each repository call  *)
(* is a transaction of its own.                                            *)

MaxOthers == 2         \* repository calls of other requests in one behaviour

\* the image of the request is stored as the active image of the session
TurnBeginStoresImage ==
    /\ chat.pc = "idle"
    /\ \E image_base64 \in FreshImages, session_id \in {None, Some(1)} :
       \E conv \in { GetOrCreate(db, session_id, clock) } :
       \E appended \in { add_message(conv.db, conv.session_id, "user", <<"h", "i">>,
                                     None, None, None, clock + 1).db } :
       \E stored \in { IF IsNone(image_base64) THEN appended
                        ELSE set_active_image(appended, conv.session_id,
                                              The(image_base64), "pasted.png",
                                              clock + 1).db } :
          /\ db' = stored
          /\ chat' = [IdleChat EXCEPT !.pc = "stored", !.n = 1,
                                      !.message = <<"h", "i">>,
                                      !.session_id = conv.session_id,
                                      !.request_session_id = session_id,
                                      !.image_base64 = image_base64]
          /\ last' = [last EXCEPT !.seen = {stored}]
    /\ clock' = clock + 2
    /\ UNCHANGED csv

\* chat.py lines 49-64: the session is resolved (the request names session
\* 1 or none) and the user message stored
TurnBegin ==
    /\ chat.pc = "idle"
    /\ \E image_base64 \in FreshImages, session_id \in {None, Some(1)} :
       \E conv \in { GetOrCreate(db, session_id, clock) } :
       \E stored \in { add_message(conv.db, conv.session_id, "user", <<"h", "i">>,
                                   None, None, None, clock + 1).db } :
          /\ db' = stored
          /\ chat' = [IdleChat EXCEPT !.pc = "stored", !.n = 1,
                                      !.message = <<"h", "i">>,
                                      !.session_id = conv.session_id,
                                      !.request_session_id = session_id,
                                      !.image_base64 = image_base64]
          /\ last' = [last EXCEPT !.seen = {stored}]
    /\ clock' = clock + 2
    /\ UNCHANGED csv

\* lines 67 and 73: the stored image is read; the image of the request is
\* preferred to it
TurnReadImage ==
    /\ chat.pc = "stored"
    /\ chat' = [chat EXCEPT !.pc = "read_image",
                            !.image_to_use =
                                Or(chat.image_base64,
                                   get_active_image(db, chat.session_id))]
    /\ UNCHANGED <<db, clock, last, csv>>

\* line 68
TurnReadCsv ==
    /\ chat.pc = "read_image"
    /\ chat' = [chat EXCEPT !.pc = "read_csv",
                            !.active_csv = get_active_csv(db, chat.session_id)]
    /\ UNCHANGED <<db, clock, last, csv>>

\* line 69
TurnReadSummary ==
    /\ chat.pc = "read_csv"
    /\ chat' = [chat EXCEPT !.pc = "read_summary",
                            !.csv_summary = get_csv_summary(db, chat.session_id)]
    /\ UNCHANGED <<db, clock, last, csv>>

\* line 70; the streaming response is returned next
TurnReadHistory ==
    /\ chat.pc = "read_summary"
    /\ chat' = [chat EXCEPT !.pc = "ready",
                            !.history = get_message_history_for_llm(
                                            db, chat.session_id, HISTORY_LIMIT)]
    /\ UNCHANGED <<db, clock, last, csv>>

\* where the request is between its repository calls, and where its
\* generator is suspended
ReadWindow == {"stored", "read_image", "read_csv", "read_summary"}
TurnInFlight == ReadWindow \cup Suspended

\* a repository call of another request is committed; the states the
\* database went through during the reads of the turn are kept in last.seen
Other(op, result) ==
    /\ chat.pc \in TurnInFlight
    /\ last.n < MaxOthers
    /\ db' = result.db
    /\ last' = [ op |-> op, n |-> last.n + 1, raised |-> result.raised,
                 before |-> db,
                 seen |-> IF chat.pc \in ReadWindow
                          THEN last.seen \cup {result.db} ELSE last.seen ]
    /\ clock' = clock + 1
    /\ UNCHANGED <<chat, csv>>

\* another chat-stream request stores its user message (chat.py line 64)
OtherAppends ==
    \E r \in { add_message(db, 1, "user", <<"o">>, None, None, None, clock) } :
        Other("add_message", r)

\* a CSV upload stores its context (api/routes/csv.py line 90)
OtherSetsCsv ==
    \E u \in { CsvUpload(OtherContent, "t2.csv") } :
    \E r \in { set_active_csv(db, 1, u.csv_data, u.filename, u.summary, clock, FALSE) } :
        Other("set_active_csv", r)

\* clear_csv (api/routes/csv.py lines 203-215)
OtherClearsCsv ==
    \E r \in { clear_csv_context(db, 1, clock) } : Other("clear_csv_context", r)

\* an image upload stores its image (api/routes/image.py line 71)
OtherSetsImage ==
    \E r \in { set_active_image(db, 1, <<"imgB">>, "b.png", clock) } :
        Other("set_active_image", r)

\* delete_session (chat.py lines 146-153)
OtherDeletes ==
    /\ Exists(db, 1)
    /\ \E r \in { delete_conversation(db, 1) } : Other("delete_conversation", r)

\* session 1 as earlier requests left it: new, with an uploaded CSV, with
\* an uploaded CSV and an uploaded image
TurnInit ==
    /\ db \in LET created == create_conversation(EmptyDb, 0).db
              IN { created } \cup
                 { d : d \in { upload_csv(created, ScenarioContent, "t1.csv",
                                          Some(1), 1).db } } \cup
                 { set_active_image(d, 1, <<"imgA">>, "a.png", 5).db :
                     d \in { upload_csv(created, ScenarioContent, "t1.csv",
                                        Some(1), 1).db } }
    /\ clock = 6
    /\ last = [ op |-> "none", n |-> 0, raised |-> None, before |-> EmptyDb,
                seen |-> {} ]
    /\ chat = IdleChat
    /\ csv = NoCsv

TurnNext ==
    \/ TurnBegin
    \/ TurnReadImage
    \/ TurnReadCsv
    \/ TurnReadSummary
    \/ TurnReadHistory
    \/ GenStart
    \/ OrchStart
    \/ PrimaryCall
    \/ CreateOk
    \/ ProviderDelta
    \/ StreamEnd
    \/ GenClose
    \/ OtherAppends
    \/ OtherSetsCsv
    \/ OtherClearsCsv
    \/ OtherSetsImage
    \/ OtherDeletes

TurnSpec == TurnInit /\ [][TurnNext]_vars

-----------------------------------------------------------------------------
(* Properties of the chat stream *)

IsPrefix(s, t) == Len(s) <= Len(t) /\ s = SubSeq(t, 1, Len(s))
Positions(trace, kinds) == { i \in 1..Len(trace) : trace[i].kind \in kinds }
Terminal == {"done", "error"}
Finished == chat.pc \in {"sent_terminal", "closed"}

\* C1: the events of a request are one session announcement first, then
\* chunks, then exactly one terminal event (done or error) with nothing
\* after it; a request whose consumer stayed connected to the end has its
\* terminal event.
C1_EventShape ==
    LET ev == Events(chat.trace) IN
    /\ (chat.pc \notin {"idle", "ready", "cancelled"} \/ ev # << >>) =>
          /\ ev # << >>
          /\ Positions(ev, {"session"}) = {1}
          /\ \A i \in Positions(ev, Terminal) : i = Len(ev)
          /\ \A i \in 2..Len(ev) : ev[i].kind \in {"chunk"} \cup Terminal
    /\ Finished => Cardinality(Positions(ev, Terminal)) = 1

C1_Witness ==
    LET ev == Events(chat.trace) IN
    /\ chat.pc = "closed"
    /\ Len(ev) = 4
    /\ ev[2].kind = "chunk"
    /\ ev[3].kind = "chunk"
    /\ ev[4].kind = "error"

\* what the session holds once the response of this request has been saved
SavedResponse ==
    LET ms == get_messages(db, chat.session_id) IN
    /\ Len(ms) = Len(chat.history) + 1
    /\ ms[Len(ms)].role = "assistant"
    /\ ms[Len(ms)].content = chat.full_response

\* C2 as stated: every request whose provider stream ran to its end, on the
\* primary or on the fallback model, has exactly one assistant Message
\* appended, after the last chunk and before done.
C2_CompletedPersistsOnce ==
    (Finished /\ chat.states[Len(chat.states)] = "COMPLETED") =>
        LET saved == Positions(chat.trace, {"persist"}) IN
        /\ Cardinality(saved) = 1
        /\ \A i \in saved :
              /\ \A j \in Positions(chat.trace, {"chunk"}) : j < i
              /\ \A j \in Positions(chat.trace, {"done"}) : i < j

\* C2, amended: a request whose provider stream ran to its end appends the
\* accumulated text at most once, after the last chunk; when the append
\* succeeds it is the one assistant Message of the request and done follows
\* it; when the session has been deleted meanwhile the append fails, nothing
\* is appended and the terminal event is error.
C2_CompletedPersistsOnceUnlessDeleted ==
    (Finished /\ chat.states[Len(chat.states)] = "COMPLETED") =>
        LET saved == Positions(chat.trace, {"persist"})
            n == Len(chat.trace)
        IN /\ Cardinality(saved) <= 1
           /\ \A i \in saved :
                 /\ \A j \in Positions(chat.trace, {"chunk"}) : j < i
                 /\ i = n - 1
                 /\ chat.trace[i].content = chat.full_response
           /\ chat.trace[n].kind = "done" <=> saved # {}
           /\ chat.trace[n].kind = "error" <=> saved = {}
           /\ (saved # {} /\ Exists(db, chat.session_id)) => SavedResponse
           /\ saved = {} => ~Exists(db, chat.session_id)

C2_Witness ==
    /\ chat.pc = "closed"
    /\ chat.states = <<"STARTED", "STREAMING", "FAILED_OVER", "STREAMING", "COMPLETED">>
    /\ Cardinality(Positions(chat.trace, {"chunk"})) = 2
    /\ Positions(chat.trace, {"persist"}) # {}
    /\ Exists(db, chat.session_id)
    /\ SavedResponse

\* C3: when the consumer disconnects before the sequence of the request is
\* exhausted, no assistant Message is saved for the request: the session
\* holds what it held when the request had stored its user message.
C3_DisconnectPersistsNothing ==
    (chat.pc = "cancelled" /\ Positions(chat.trace, {"exhausted"}) = {}) =>
        /\ Positions(chat.trace, {"persist"}) = {}
        /\ Exists(db, chat.session_id) =>
              get_message_history_for_llm(db, chat.session_id, HISTORY_LIMIT)
                 = chat.history

C3_Witness ==
    /\ chat.pc = "cancelled"
    /\ Positions(chat.trace, {"exhausted"}) = {}
    /\ Cardinality(Positions(chat.trace, {"chunk"})) = 2
    /\ chat.full_response # << >>
    /\ Exists(db, chat.session_id)

\* C4: the states of a request follow STARTED -> STREAMING -> {COMPLETED |
\* FAILED_OVER -> STREAMING -> {COMPLETED | ERRORED}}; one call per
\* STREAMING state, the first to the primary (or vision) model, the second,
\* if any, to the fallback model after the primary call has failed; a
\* request that was not cancelled and has its terminal event ended in
\* COMPLETED or ERRORED.
C4_StateMachine ==
    /\ \E p \in LlmPaths : IsPrefix(chat.states, p)
    /\ Len(chat.calls) =
          Cardinality({ i \in 1..Len(chat.states) : chat.states[i] = "STREAMING" })
    /\ Len(chat.calls) <= 2
    /\ Len(chat.calls) >= 1 =>
          /\ chat.calls[1].model \in {PRIMARY_MODEL, VISION_MODEL}
          /\ chat.calls[1].model # FALLBACK_MODEL
    /\ Len(chat.calls) = 2 =>
          /\ chat.calls[2].model = FALLBACK_MODEL
          /\ ~IsNone(chat.error)
          /\ chat.states[3] = "FAILED_OVER"
    /\ Finished => chat.states \in LlmPaths

C4_Witness ==
    /\ chat.pc = "closed"
    /\ chat.states = <<"STARTED", "STREAMING", "FAILED_OVER", "STREAMING", "ERRORED">>
    /\ Len(chat.calls) = 2

\* C5: the payload of the fallback call has the messages of the primary
\* call in the same order; a message whose content is a list of parts is
\* replaced by a plain-text message of the same role, the placeholder
\* followed by the text of the turn; every other message is the same; no
\* message of the fallback payload has an image part.
C5_FallbackPayloadHasNoImage ==
    Len(chat.calls) = 2 =>
        LET sent == chat.calls[1].messages
            resent == chat.calls[2].messages
        IN /\ Len(resent) = Len(sent)
           /\ \A i \in 1..Len(sent) :
                 /\ resent[i].role = sent[i].role
                 /\ resent[i].content.kind = "str"
                 /\ resent[i].content.parts = << >>
                 /\ sent[i].content.kind = "str" => resent[i] = sent[i]
                 /\ sent[i].content.kind = "list" =>
                       resent[i].content.text = IMAGE_PLACEHOLDER \o chat.message
           /\ Truthy(chat.image_to_use) =>
                 sent[Len(sent)].content.kind = "list"

C5_Witness ==
    /\ Len(chat.calls) = 2
    /\ Truthy(chat.image_to_use)
    /\ \E part \in { chat.calls[1].messages[Len(chat.calls[1].messages)].content.parts[2] } :
          part.type = "image_url"
    /\ chat.calls[2].messages[Len(chat.calls[2].messages)].content.text
          = IMAGE_PLACEHOLDER \o chat.message

\* C6: when the primary and the fallback call have both failed, the
\* sequence of the orchestrator ends with the apology built from the
\* primary model's exception, produced once, as its final element, and no
\* exception leaves the orchestrator: the generator goes on to save the
\* response instead of reporting an exception.
C6_BothFailEndsWithApology ==
    (chat.states # << >> /\ chat.states[Len(chat.states)] = "ERRORED") =>
        /\ IsNone(chat.escaped)
        /\ chat.out # << >>
        /\ { i \in 1..Len(chat.out) : chat.out[i] = Apology(The(chat.error)) }
              = { Len(chat.out) }
        /\ Finished => Positions(chat.trace, {"exhausted"}) # {}

C6_Witness ==
    /\ chat.pc = "closed"
    /\ chat.states[Len(chat.states)] = "ERRORED"
    /\ Len(chat.out) = 3
    /\ chat.out[3] = Apology("e1")
    /\ chat.trace[Len(chat.trace)].kind = "done"

-----------------------------------------------------------------------------
(* Properties of the assembled payload (PayloadSpec) *)

\* the payload of the primary call, and its history part: what lies
\* between the system message and the current turn
Payload == chat.calls[1].messages
HistoryPart == SubSeq(Payload, 2, Len(Payload) - 1)

\* the messages the session held before the request stored its own
StoredBefore ==
    LET ms == get_messages(db, chat.session_id) IN SubSeq(ms, 1, Len(ms) - 1)

\* the upload markers "[Uploaded ..." and "[Loaded ..." are never part of
\* the history sent to the model
C18_NoUploadMarkerInHistory ==
    Len(chat.calls) >= 1 =>
        \A i \in 1..Len(HistoryPart) :
            /\ ~StartsWith(HistoryPart[i].content.text, UPLOADED)
            /\ ~StartsWith(HistoryPart[i].content.text, LOADED)

\* C18: no stored message whose content begins with '[' is included in the
\* history sent to the completion model, whatever its role and whatever
\* follows the bracket.
C18_NoBracketInHistory ==
    Len(chat.calls) >= 1 =>
        \A i \in 1..Len(HistoryPart) :
            ~StartsWith(HistoryPart[i].content.text, <<"[">>)

\* C19: the payload has exactly one system message, its first; exactly one
\* message for the current turn, its last; between them at most 15 history
\* messages, none of them the message the request has just stored; and at
\* most 5 sample rows in the CSV block of the system prompt.
C19_PayloadWithinCaps ==
    Len(chat.calls) >= 1 =>
        LET n == Len(Payload)
            prompt == Payload[1].content.text
        IN /\ n >= 2
           /\ { i \in 1..n : Payload[i].role = "system" } = {1}
           /\ Payload[n].role = "user"
           /\ Len(HistoryPart) <= 15
           /\ Len(HistoryPart) <= Len(StoredBefore)
           /\ \A i \in 1..Len(HistoryPart) :
                 \E j \in 1..Len(StoredBefore) :
                     /\ StoredBefore[j].role = HistoryPart[i].role
                     /\ StoredBefore[j].content = HistoryPart[i].content.text
           /\ Len(prompt) <= 2
           /\ Len(prompt) = 2 =>
                 /\ Len(prompt[2].sample_rows) <= 5
                 /\ Len(prompt[2].sample_rows) <= Len(The(chat.active_csv).sample_rows)

\* more stored messages than the fetch returns and more sample rows than
\* the prompt takes
C19_Witness ==
    /\ Len(chat.calls) = 1
    /\ Len(StoredBefore) > 20
    /\ Len(HistoryPart) = 15
    /\ Len(Payload[1].content.text) = 2
    /\ Len(The(chat.active_csv).sample_rows) = 6
    /\ Len(Payload[1].content.text[2].sample_rows) = 5

\* C20: the current turn is a multi-part message (text and image
\* reference) exactly when the request carries an image or the session
\* holds an active one, and plain text otherwise; the image referenced is
\* the one of the request when there is one, else the stored one.
C20_ImageOfTheTurn ==
    Len(chat.calls) >= 1 =>
        LET current == Payload[Len(Payload)]
            fresh == chat.image_base64
            stored == get_active_image(db, chat.session_id)
            image == IF ~IsNone(fresh) THEN fresh ELSE stored
        IN /\ current.role = "user"
           /\ current.content.kind = "list" <=> ~IsNone(image)
           /\ ~IsNone(image) =>
                 /\ Len(current.content.parts) = 2
                 /\ current.content.parts[1].type = "text"
                 /\ current.content.parts[1].text = chat.message
                 /\ current.content.parts[2].type = "image_url"
                 /\ current.content.parts[2].url
                       = <<"data:image/jpeg;base64,", The(image)>>
                 /\ chat.calls[1].model = VISION_MODEL
           /\ IsNone(image) =>
                 /\ current.content.kind = "str"
                 /\ current.content.text = chat.message

\* a request with an image on a session that holds another image
C20_Witness ==
    /\ Len(chat.calls) = 1
    /\ chat.image_base64 = Some(<<"imgP">>)
    /\ get_active_image(db, chat.session_id) = Some(<<"imgA">>)
    /\ Payload[Len(Payload)].content.parts[2].url
          = <<"data:image/jpeg;base64,", <<"imgP">>>>

\* C21: the system prompt of the payload carries the CSV block exactly when
\* the session holds an active CSV context at the time of the turn: with
\* none the prompt is the base prompt alone (no block, not an empty one),
\* with one the block is there and describes that context.
C21_CsvBlockIffActive ==
    Len(chat.calls) >= 1 =>
        LET prompt == Payload[1].content.text
            conv == db.conversations[chat.session_id]
            rows == RowsOf(db.csv_contexts, chat.session_id)
        IN /\ prompt[1] = "base_prompt"
           /\ Len(prompt) = (IF conv.has_active_csv THEN 2 ELSE 1)
           /\ conv.has_active_csv <=> rows # {}
           /\ conv.has_active_csv =>
                 \E r \in rows :
                     /\ prompt[2].filename = r.filename
                     /\ prompt[2].row_count = r.row_count
                     /\ prompt[2].columns = r.columns
                     /\ prompt[2].numeric_stats = r.csv_data.numeric_stats
                     /\ prompt[2].summary = The(conv.csv_summary)

\* a turn on a session with an active CSV context
C21_Witness ==
    /\ Len(chat.calls) = 1
    /\ db.conversations[chat.session_id].has_active_csv
    /\ Len(Payload[1].content.text) = 2
    /\ Payload[1].content.text[2].filename = "t1.csv"

\* a turn on a session whose CSV context was cleared: the upload messages
\* are still stored and the prompt has no block
C21_WitnessCleared ==
    /\ Len(chat.calls) = 1
    /\ ~db.conversations[chat.session_id].has_active_csv
    /\ Len(StoredBefore) >= 2
    /\ StartsWith(StoredBefore[1].content, UPLOADED_CSV)
    /\ Payload[1].content.text = <<"base_prompt">>

-----------------------------------------------------------------------------
(* Tabular Summarizer properties, continued (CsvSpec) *)

\* the rows the parser keeps of the uploaded content, and an upload that
\* has been parsed and stored
ParsedRows ==
    LET kept == SelectSeq(csv.content.lines, LAMBDA l : ~l.bad)
    IN [i \in 1..Len(kept) |-> kept[i].row]
Uploaded == csv.pc \in {"done", "readback"}
NullsIn(rows, col) == Cardinality({i \in 1..Len(rows) : rows[i][col].kind = "nan"})

\* C22: row_count in the table context and in the summary is the number of
\* parsed rows, also beyond the 1000 rows kept for the statistics; the
\* sample holds min(rows, 100) rows; the stored context and the context
\* read back carry that same untruncated row_count.
C22_RowCountUntruncated ==
    Uploaded =>
        LET total == Len(ParsedRows)
            r == The(csv.result)
            stored == RowsOf(db.csv_contexts, csv.sid)
        IN /\ r.csv_data.row_count = total
           /\ r.summary.row_count = total
           /\ Len(r.csv_data.sample_rows) = (IF total <= 100 THEN total ELSE 100)
           /\ stored # {}
           /\ \A row \in stored :
                 /\ row.row_count = total
                 /\ row.csv_data.sample_rows = r.csv_data.sample_rows
           /\ csv.pc = "readback" =>
                 /\ The(csv.got).row_count = total
                 /\ The(csv.got).sample_rows = r.csv_data.sample_rows

\* an upload of more rows than the context cap, stored and read back
C22_Witness ==
    /\ csv.pc = "readback"
    /\ Len(ParsedRows) > MAX_ROWS_CONTEXT
    /\ The(csv.got).row_count = Len(ParsedRows)
    /\ The(csv.result).csv_data.truncated
    /\ Len(The(csv.got).sample_rows) = 100

\* what the summary reports of the nulls of `rows`: the count of each
\* column, and as most-missing column one whose count is the greatest,
\* or none when no cell is null
ReportsNullsOf(rows) ==
    LET r == The(csv.result)
        cols == {csv.content.columns[i] : i \in 1..Len(csv.content.columns)}
        top == CHOOSE n \in 0..Len(rows) :
                 /\ \A c \in cols : NullsIn(rows, c) <= n
                 /\ \E c \in cols : NullsIn(rows, c) = n
    IN /\ \A c \in cols :
            /\ r.csv_data.missing_values[c] = NullsIn(rows, c)
            /\ r.summary.missing_values[c] = NullsIn(rows, c)
       /\ r.summary.most_missing_count = top
       /\ top > 0 =>
            /\ ~IsNone(r.summary.most_missing_column)
            /\ NullsIn(rows, The(r.summary.most_missing_column)) = top
       /\ top = 0 => IsNone(r.summary.most_missing_column)

\* C23: for every input in which a column holds N nulls, summarize reports
\* missing_values[column] = N, and the most-missing report names a column
\* whose count is the greatest.
C23_MissingCountsNulls == Uploaded => ReportsNullsOf(ParsedRows)

\* C23 amended: the same, the nulls being those of the first 1000 rows.
C23_MissingCountsNullsOfWorkingCopy ==
    Uploaded => ReportsNullsOf(Prefix(ParsedRows, MAX_ROWS_CONTEXT))

\* one null in column a, two in column b
C23_Witness ==
    /\ Uploaded
    /\ NullsIn(ParsedRows, "a") = 1
    /\ NullsIn(ParsedRows, "b") = 2
    /\ The(csv.result).summary.missing_values["b"] = 2
    /\ The(csv.result).summary.most_missing_column = Some("b")

\* C24: every null cell of the input is the explicit null marker None in
\* the sample rows, never NaN and never an empty string.
C24_NullsBecomeNone ==
    Uploaded =>
        LET sample == The(csv.result).csv_data.sample_rows
        IN \A i \in 1..Len(sample) : \A c \in {"a", "b"} :
              ParsedRows[i][c].kind = "nan" => sample[i][c] = PyNone

\* C25: the 3-row scenario a,b / 1,x / 2, / 3,z gives for column a mean 2.0,
\* median 2.0, min 1, max 3, std 1.0, count 3, missing 0; for column b
\* missing 1; most_missing_column b with most_missing_count 1.
C25_ScenarioSummary ==
    (Uploaded /\ csv.content = ScenarioContent) =>
        LET summary == The(csv.result).summary
        IN /\ DOMAIN summary.numeric_stats = {"a"}
           /\ summary.numeric_stats["a"]
                = [ mean |-> 200, median |-> 200, min |-> 100, max |-> 300,
                    std |-> 100, count |-> 3, missing |-> 0 ]
           /\ summary.missing_values = [c \in {"a", "b"} |-> IF c = "b" THEN 1 ELSE 0]
           /\ summary.most_missing_column = Some("b")
           /\ summary.most_missing_count = 1
           /\ The(csv.result).csv_data.numeric_stats = summary.numeric_stats

\* the scenario uploaded
C25_Witness ==
    /\ csv.pc = "done"
    /\ csv.content = ScenarioContent
    /\ csv.filename = "t1.csv"
    /\ The(csv.result).summary.row_count = 3

-----------------------------------------------------------------------------
(* Properties of the get-or-create entry points (EntrySpec) *)

\* what the store holds of one session
SessionView(d, c) ==
    [ conversation |-> IF Exists(d, c) THEN Some(d.conversations[c]) ELSE None,
      messages     |-> AppendedTo(d, c),
      image        |-> RowsOf(d.image_contexts, c),
      csv          |-> RowsOf(d.csv_contexts, c) ]

\* a step that writes to session sid only, appending to the messages
WritesOnlyTo(sid) ==
    /\ \A c \in ConvIds \ {sid} : SessionView(db', c) = SessionView(db, c)
    /\ Len(db'.messages) >= Len(db.messages)
    /\ SubSeq(db'.messages, 1, Len(db.messages)) = db.messages
    /\ \A i \in (Len(db.messages) + 1)..Len(db'.messages) :
          db'.messages[i].conversation_id = sid

\* a step of a request that was given `supplied` and works on session sid:
\* the supplied session when it exists, else one session created in this
\* step, which held nothing before
GetsOrCreates(supplied, sid) ==
    LET reuse == ~IsNone(supplied) /\ Exists(db, The(supplied))
    IN /\ reuse =>
            /\ sid = The(supplied)
            /\ db'.issued = db.issued
            /\ DOMAIN db'.conversations = DOMAIN db.conversations
       /\ ~reuse =>
            /\ db'.issued = db.issued + 1
            /\ sid = db'.issued
            /\ ~Exists(db, sid)
            /\ DOMAIN db'.conversations = DOMAIN db.conversations \cup {sid}
            /\ SessionView(db, sid)
                 = [conversation |-> None, messages |-> << >>, image |-> {}, csv |-> {}]
            /\ db'.conversations[sid].created_at = clock
       /\ WritesOnlyTo(sid)

\* C29: at the four get-or-create entry points a supplied identifier of an
\* existing session is reused and no session is created; otherwise exactly
\* one session is created, it holds nothing but what this request writes,
\* and every write of the request and the session id announced or
\* returned refer to it.
C29_GetOrCreate ==
    [][ /\ chat'.n = chat.n + 1 =>
             /\ GetsOrCreates(chat'.request_session_id, chat'.session_id)
             /\ ~Exists(db, chat'.session_id) =>
                   /\ Len(AppendedTo(db', chat'.session_id)) = 1
                   /\ RowsOf(db'.image_contexts, chat'.session_id) = {}
                   /\ RowsOf(db'.csv_contexts, chat'.session_id) = {}
        /\ (chat.pc = "ready" /\ chat'.pc = "sent_session") =>
             /\ chat'.trace = <<Event("session", <<chat.session_id>>)>>
             /\ db' = db
        /\ (csv'.n = csv.n + 1 /\ csv'.pc = "done") =>
             /\ GetsOrCreates(csv'.session_id, csv'.sid)
             /\ RowsOf(db'.csv_contexts, csv'.sid) # {}
             /\ ~Exists(db, csv'.sid) =>
                   /\ Len(AppendedTo(db', csv'.sid)) = 2
                   /\ RowsOf(db'.image_contexts, csv'.sid) = {}
        /\ (last.op # "upload_image" /\ last' # last) =>
             /\ GetsOrCreates(The(last'.arg).session_id, last'.conv_id)
             /\ last'.op = "upload_image" =>
                   RowsOf(db'.image_contexts, last'.conv_id) # {}
             /\ ~Exists(db, last'.conv_id) =>
                   /\ AppendedTo(db', last'.conv_id) = << >>
                   /\ RowsOf(db'.csv_contexts, last'.conv_id) = {}
        /\ (last.op = "upload_image" /\ last' # last) =>
             /\ db'.issued = db.issued
             /\ WritesOnlyTo(last.conv_id)
             /\ last'.conv_id = last.conv_id
      ]_vars

\* a chat request that names a session deleted before: a session is
\* created under a new identifier and announced
C29_Witness ==
    /\ chat.pc = "sent_session"
    /\ chat.request_session_id = Some(1)
    /\ chat.session_id = 2
    /\ chat.trace = <<Event("session", <<2>>)>>
    /\ Len(AppendedTo(db, 2)) = 1
    /\ RowsOf(db.csv_contexts, 1) = {}
    /\ ~Exists(db, 1)

\* an image upload and a CSV load from a URL that reuse the session a chat
\* request created
C29_WitnessReuse ==
    /\ chat.session_id = 1
    /\ csv.pc = "done" /\ csv.filename = "data.csv"
    /\ csv.session_id = Some(1) /\ csv.sid = 1
    /\ db.issued = 1
    /\ Len(AppendedTo(db, 1)) = 3

\* C26: when the content cannot be parsed, also not by the lenient retry,
\* the upload or the load from a URL ends with an error and the store is
\* as it was: no session created, no CSV context set or replaced, no
\* message appended.
C26_ParseFailureLeavesStore ==
    [][ csv'.n = csv.n + 1 =>
          /\ csv'.content.unreadable <=> csv'.pc = "failed"
          /\ csv'.pc = "failed" => (db' = db /\ IsNone(csv'.result))
      ]_vars

\* a load from a URL that fails on a session with an active CSV context
C26_Witness ==
    /\ csv.pc = "failed"
    /\ csv.filename = "data.csv"
    /\ csv.content = OpenQuoteContent
    /\ csv.session_id = Some(1)
    /\ Exists(db, 1) /\ db.conversations[1].has_active_csv
    /\ \E r \in RowsOf(db.csv_contexts, 1) : r.filename = "t1.csv"
    /\ Len(AppendedTo(db, 1)) = 2

-----------------------------------------------------------------------------
(* Frame properties of the Context Store (StoreSpec) *)

\* C27: a call on one session changes nothing of another session: its
\* row (title, flags, timestamps), its messages, its active image and its
\* active CSV context are after the call what they were before it.
C27_OtherSessionsUntouched ==
    \A c \in ConvIds \ {last.conv_id} :
        SessionView(db, c) = SessionView(last.before, c)

\* session 1 deleted while session 2 holds a message and an image
C27_Witness ==
    /\ last.op = "delete_conversation"
    /\ last.conv_id = 1
    /\ Exists(last.before, 1) /\ ~Exists(db, 1)
    /\ Len(AppendedTo(db, 2)) = 1
    /\ HasImageRow(db, 2)

\* C28: stored messages are never modified; set_active_image,
\* set_active_csv and the three clear functions leave the messages as they
\* were; add_message appends exactly one message after the earlier ones;
\* only delete_conversation removes messages, and only those of its session.
C28_MessagesImmutable ==
    LET before == last.before.messages
        after == db.messages
    IN /\ last.op \in {"set_active_image", "set_active_csv", "clear_image_context",
                       "clear_csv_context", "clear_all_context",
                       "create_conversation"} => after = before
       /\ (last.op = "add_message" /\ ~IsNone(last.raised)) => after = before
       /\ (last.op = "add_message" /\ IsNone(last.raised)) =>
             /\ Len(after) = Len(before) + 1
             /\ SubSeq(after, 1, Len(before)) = before
             /\ after[Len(after)].conversation_id = last.conv_id
             /\ after[Len(after)].role = The(last.arg).role
             /\ after[Len(after)].content = The(last.arg).content
       /\ last.op = "delete_conversation" =>
             after = SelectSeq(before, LAMBDA m : m.conversation_id # last.conv_id)

\* the CSV context of a session with two messages cleared
C28_Witness ==
    /\ last.op = "clear_csv_context"
    /\ HasCsvRow(last.before, last.conv_id)
    /\ ~HasCsvRow(db, last.conv_id)
    /\ Len(AppendedTo(db, last.conv_id)) = 2

-----------------------------------------------------------------------------
(* The history part of the payload (PayloadSpec) *)

\* C30: the history part of the payload is the 20 most recently stored
\* messages of the session without the user message this turn has just
\* stored, of those the last 15, of those the ones that do not begin with
\* '[Uploaded' or '[Loaded', oldest first, each with its role and content
\* as stored; the current user message is the last element of the payload.
C30_HistoryPartExactly ==
    Len(chat.calls) >= 1 =>
        LET stored == AppendedTo(db, chat.session_id)
            n == Len(stored)
            recent == SubSeq(stored, IF n > 20 THEN n - 19 ELSE 1, n)
            earlier == SubSeq(recent, 1, Len(recent) - 1)
            window == SubSeq(earlier,
                             IF Len(earlier) > 15 THEN Len(earlier) - 14 ELSE 1,
                             Len(earlier))
            kept == SelectSeq(window, LAMBDA m :
                        /\ ~StartsWith(m.content, UPLOADED)
                        /\ ~StartsWith(m.content, LOADED))
            current == Payload[Len(Payload)]
        IN /\ stored[n].role = "user" /\ stored[n].content = chat.message
           /\ Len(HistoryPart) = Len(kept)
           /\ \A i \in 1..Len(kept) :
                 /\ HistoryPart[i].role = kept[i].role
                 /\ HistoryPart[i].content = TextContent(kept[i].content)
           /\ current.role = "user"
           /\ IF current.content.kind = "str"
              THEN current.content.text = chat.message
              ELSE current.content.parts[1] = TextPart(chat.message)

\* more than 20 stored messages, a marker among the last 15 before the
\* current one: 14 history messages
C30_Witness ==
    /\ Len(chat.calls) = 1
    /\ Len(StoredBefore) > 20
    /\ \E i \in (Len(StoredBefore) - 14)..Len(StoredBefore) :
          StartsWith(StoredBefore[i].content, LOADED)
    /\ Len(HistoryPart) = 14
    /\ HistoryPart[14].content.text = StoredBefore[Len(StoredBefore)].content

-----------------------------------------------------------------------------
(* Properties of the chat stream, continued (Spec) *)

\* the contents of the chunk events of a trace, joined in the order of
\* their emission
RECURSIVE ChunkText(_)
ChunkText(trace) ==
    IF trace = << >> THEN << >>
    ELSE LET e == trace[Len(trace)]
         IN ChunkText(SubSeq(trace, 1, Len(trace) - 1))
              \o (IF e.kind = "chunk" THEN e.content ELSE << >>)

\* C31: the content of the assistant Message saved for a request is the
\* concatenation, in the order of emission, of the contents of the chunk
\* events sent to the consumer in that request: what is handed to
\* add_message, and what the session then holds as its newest message.
C31_SavedIsChunksJoined ==
    \A i \in Positions(chat.trace, {"persist"}) :
        /\ chat.trace[i].content = ChunkText(Events(chat.trace))
        /\ Exists(db, chat.session_id) =>
              LET ms == get_messages(db, chat.session_id) IN
              /\ ms[Len(ms)].role = "assistant"
              /\ ms[Len(ms)].content = ChunkText(Events(chat.trace))

C31_Witness ==
    /\ chat.pc = "closed"
    /\ chat.states = <<"STARTED", "STREAMING", "COMPLETED">>
    /\ chat.deltas = 2
    /\ Exists(db, chat.session_id)
    /\ \E ms \in { get_messages(db, chat.session_id) } :
          /\ ms[Len(ms)].role = "assistant"
          /\ ms[Len(ms)].content = Delta(1) \o Delta(2)
    /\ \E ev \in { Events(chat.trace) } :
          /\ Len(ev) = 4
          /\ ev[2] = Event("chunk", Delta(1))
          /\ ev[3] = Event("chunk", Delta(2))
          /\ ev[4].kind = "done"

-----------------------------------------------------------------------------
(* Tabular Summarizer properties: the missing-value reports (CsvSpec) *)

\* the rows the statistics are computed on, and the nulls of a column
\* among them
WorkingRows == Prefix(ParsedRows, MAX_ROWS_CONTEXT)
WorkingNulls(col) == NullsIn(WorkingRows, col)

C32_WitnessSecond ==
    /\ Uploaded
    /\ WorkingNulls("a") = 1
    /\ WorkingNulls("b") = 2
    /\ The(csv.result).summary.most_missing_column = Some("b")

\* no null at all: no column is reported
C32_WitnessNone ==
    /\ Uploaded
    /\ Len(ParsedRows) = 2
    /\ WorkingNulls("a") = 0
    /\ WorkingNulls("b") = 0
    /\ IsNone(The(csv.result).summary.most_missing_column)

\* the missing-value lines of a text summary, and of the CSV block of a
\* prompt: the column and its percentage, in tenths of a percent
MissingLines(text_summary) ==
    LET ls == SelectSeq(text_summary, LAMBDA l : l[1] = "-")
    IN [i \in 1..Len(ls) |-> <<ls[i][2], ls[i][4]>>]
MissingOfPrompt(csv_info) ==
    [i \in 1..Len(csv_info.missing) |-> <<csv_info.missing[i][1], csv_info.missing[i][3]>>]

\* `listing` holds the columns with a null among `rows`, at most 5 of
\* them and those with the most nulls, in descending order of their null
\* counts, each with the percentage its nulls are of `total` rows
ListsMissingOf(listing, rows, total) ==
    LET cols == {csv.content.columns[i] : i \in 1..Len(csv.content.columns)}
        with_missing == {c \in cols : NullsIn(rows, c) > 0}
        listed == {listing[i][1] : i \in 1..Len(listing)}
    IN /\ Len(listing) = Min(SUMMARY_MISSING_COLS, Cardinality(with_missing))
       /\ Cardinality(listed) = Len(listing)
       /\ listed \subseteq with_missing
       /\ \A i, j \in 1..Len(listing) :
             i < j => NullsIn(rows, listing[i][1]) >= NullsIn(rows, listing[j][1])
       /\ \A c \in with_missing \ listed :
             \A l \in listed : NullsIn(rows, c) <= NullsIn(rows, l)
       /\ \A i \in 1..Len(listing) :
             listing[i][2] = RoundDiv(1000 * NullsIn(rows, listing[i][1]), total)

\* the summary of the upload and the prompt built from the stored context
\* list the missing values of `rows` in that way, and the summary has its
\* "Missing values: None" line exactly when no column has a null in `rows`
SummaryListsMissingOf(rows) ==
    LET text == The(csv.result).summary.text_summary
        cols == {csv.content.columns[i] : i \in 1..Len(csv.content.columns)}
    IN /\ ListsMissingOf(MissingLines(text), rows, Len(rows))
       /\ (\E i \in 1..Len(text) : text[i] = <<"Missing values: None">>)
             <=> (\A c \in cols : NullsIn(rows, c) = 0)
       /\ csv.pc = "readback" =>
             MissingOfPrompt(CsvInfo(The(csv.got), text)) = MissingLines(text)

\* C33: the text summary lists at most 5 columns with missing values, in
\* descending order of null count, each with the percentage of the
\* dataset's rows in which the column is null; it has the line "Missing
\* values: None" exactly when no column has a missing value; the CSV block
\* of the prompt lists the same columns with the same percentages.
C33_MissingListing == Uploaded => SummaryListsMissingOf(ParsedRows)

\* the same for the uploads of at most 1000 rows, where the rows the nulls
\* are counted in are the rows of the dataset
C33_MissingListingWithinCap ==
    (Uploaded /\ Len(ParsedRows) <= MAX_ROWS_CONTEXT) => SummaryListsMissingOf(ParsedRows)

\* six columns with nulls, of which the summary and the prompt list five
C33_WitnessWithinCap ==
    /\ csv.pc = "readback"
    /\ csv.content = WideContent
    /\ MissingLines(The(csv.result).summary.text_summary)
          = << <<"c", 1000>>, <<"d", 1000>>, <<"b", 667>>, <<"f", 667>>, <<"a", 333>> >>
    /\ MissingOfPrompt(CsvInfo(The(csv.got), The(csv.result).summary.text_summary))
          = MissingLines(The(csv.result).summary.text_summary)

-----------------------------------------------------------------------------
(* The previews of the session list (PayloadSpec) *)

\* C34: every entry of the session list carries as preview the first 50
\* characters of the earliest user message of the session whose content
\* does not begin with "[", followed by "..." exactly when that message is
\* longer than 50 characters, and "New conversation" when the session has
\* no such message.
C34_PreviewOfFirstPlainUserMessage ==
    \E listed \in { get_all_conversations(db) } :
        \A i \in 1..Len(listed) :
            LET ms == get_messages(db, listed[i].id)
                plain == { k \in 1..Len(ms) :
                             /\ ms[k].role = "user"
                             /\ (ms[k].content = << >> \/ ms[k].content[1] # "[") }
                first == CHOOSE k \in plain : \A o \in plain : k <= o
                text == ms[first].content
            IN IF plain = {}
               THEN listed[i].preview = <<"New conversation">>
               ELSE IF Len(text) <= 50
               THEN listed[i].preview = text
               ELSE /\ Len(listed[i].preview) = 51
                    /\ SubSeq(listed[i].preview, 1, 50) = SubSeq(text, 1, 50)
                    /\ listed[i].preview[51] = "..."

\* after a marker, a user message of 51 characters: 50 of them and "..."
C34_Witness ==
    /\ chat.pc = "ready"
    /\ \E ms \in { get_messages(db, 1) } :
          /\ Len(ms) = 4
          /\ StartsWith(ms[1].content, LOADED)
          /\ ms[2].role = "user"
          /\ Len(ms[2].content) = 51
    /\ get_all_conversations(db)[1].preview = [k \in 1..50 |-> "p"] \o <<"...">>

\* after an assistant message, a user message of 50 characters: all of it
C34_WitnessWhole ==
    /\ chat.pc = "ready"
    /\ \E ms \in { get_messages(db, 1) } :
          /\ Len(ms) = 4
          /\ ms[1].role = "assistant"
          /\ Len(ms[2].content) = 50
    /\ get_all_conversations(db)[1].preview = [k \in 1..50 |-> "p"]

\* only markers and assistant messages: "New conversation"
C34_WitnessNone ==
    /\ chat.pc = "idle"
    /\ \E ms \in { get_messages(db, 1) } :
          /\ Len(ms) = 4
          /\ StartsWith(ms[1].content, UPLOADED_CSV)
          /\ ms[3].role = "user"
          /\ ms[3].content = <<"[", "x">>
          /\ ms[4].role = "assistant"
    /\ get_all_conversations(db)[1].preview = <<"New conversation">>

\* C35: when the primary stream fails after it has produced k >= 1 chunks,
\* the k chunks stay delivered and accumulated, the fallback model is
\* called next, every chunk of the fallback stream is delivered and
\* accumulated after them, and when the fallback stream ends the text
\* handed to add_message, and stored when the session still exists, is all
\* of it: the primary's partial prefix followed by the fallback's output.
C35_FailoverKeepsPrefix ==
    [][ /\ (chat.pc = "primary_stream" /\ ~IsNone(chat'.error)) =>
              /\ chat'.pc = "failing_over"
              /\ chat'.out = chat.out
              /\ chat'.full_response = chat.full_response
              /\ chat'.full_response = ChunkText(chat'.trace)
        /\ (chat.pc = "failing_over" /\ chat'.pc \notin {"failing_over", "cancelled"}) =>
              /\ chat'.pc = "await_fallback"
              /\ Len(chat'.calls) = 2
              /\ chat'.calls[2].model = FALLBACK_MODEL
              /\ chat'.out = chat.out
              /\ chat'.full_response = chat.full_response
        /\ (chat.pc = "fallback_stream" /\ chat'.pc = "fallback_stream"
              /\ chat'.out # chat.out) =>
              \E chunk \in { chat'.out[Len(chat'.out)] } :
                 /\ chat'.out = Append(chat.out, chunk)
                 /\ chat'.full_response = chat.full_response \o chunk
                 /\ chat'.trace = Append(chat.trace, Event("chunk", chunk))
        /\ (chat.pc = "fallback_stream" /\ chat'.pc = "sent_terminal") =>
              /\ chat'.out = chat.out
              /\ \A i \in Positions(chat'.trace, {"persist"}) :
                    /\ chat'.trace[i].content = chat.full_response
                    /\ chat.full_response = ChunkText(chat.trace)
              /\ Exists(db, chat.session_id) =>
                    /\ Positions(chat'.trace, {"persist"}) # {}
                    /\ \E ms \in { get_messages(db', chat.session_id) } :
                          /\ ms[Len(ms)].role = "assistant"
                          /\ ms[Len(ms)].content = chat.full_response
      ]_vars

\* the primary stream has failed after one chunk and the fallback model
\* has been called
C35_Witness ==
    /\ chat.pc = "await_fallback"
    /\ chat.out = <<Delta(1)>>
    /\ chat.full_response = Delta(1)
    /\ Len(chat.calls) = 2
    /\ chat.calls[2].model = FALLBACK_MODEL

\* the request has ended after the fallback stream: the session holds the
\* chunk of before the failure followed by the chunk of after it
C35_WitnessSaved ==
    /\ chat.pc = "closed"
    /\ chat.states = <<"STARTED", "STREAMING", "FAILED_OVER", "STREAMING", "COMPLETED">>
    /\ chat.out = <<Delta(1), Delta(2)>>
    /\ Exists(db, chat.session_id)
    /\ \E ms \in { get_messages(db, chat.session_id) } :
          ms[Len(ms)].content = Delta(1) \o Delta(2)
    /\ Events(chat.trace)[Len(Events(chat.trace))].kind = "done"

\* C36: when the primary and the fallback call have both failed, the
\* apology is delivered as a chunk event like any other content; the
\* request then saves the accumulated text, which ends with the apology,
\* as the assistant Message of the session and ends with done.  A request
\* ends with error only when an exception left the orchestrator or the
\* saving step raised (the session no longer exists), and then nothing was
\* saved for it.
C36_ApologyIsOrdinaryContent ==
    LET ev == Events(chat.trace)
        saved == Positions(chat.trace, {"persist"})
        errored == chat.states # << >> /\ chat.states[Len(chat.states)] = "ERRORED"
    IN /\ errored =>
             \E apology \in { Apology(The(chat.error)) } :
                /\ chat.out[Len(chat.out)] = apology
                /\ \E i \in Positions(ev, {"chunk"}) :
                      /\ ev[i].content = apology
                      /\ \A j \in Positions(ev, {"chunk"}) : j <= i
                /\ IsPrefix(chat.full_response, ChunkText(ev))
                /\ SubSeq(chat.full_response,
                          Len(chat.full_response) - Len(apology) + 1,
                          Len(chat.full_response)) = apology
       /\ (Finished /\ errored) =>
             \/ /\ ev[Len(ev)].kind = "done"
                /\ Cardinality(saved) = 1
                /\ \A i \in saved : chat.trace[i].content = chat.full_response
                /\ Exists(db, chat.session_id) => SavedResponse
             \/ /\ ev[Len(ev)].kind = "error"
                /\ ~Exists(db, chat.session_id)
       /\ (Finished /\ ev[Len(ev)].kind = "error") =>
             /\ saved = {}
             /\ ~IsNone(chat.escaped) \/ ~Exists(db, chat.session_id)
             /\ \A m \in { db.messages[i] : i \in 1..Len(db.messages) } :
                   m.conversation_id # chat.session_id

\* both calls failed at once: the apology is the whole response, saved as
\* the assistant Message, and the request ended with done
C36_Witness ==
    /\ chat.pc = "closed"
    /\ chat.states = <<"STARTED", "STREAMING", "FAILED_OVER", "STREAMING", "ERRORED">>
    /\ Events(chat.trace)
          = << Event("session", <<chat.session_id>>),
               Event("chunk", Apology("e1")),
               Event("done", <<chat.session_id>>) >>
    /\ Exists(db, chat.session_id)
    /\ \E ms \in { get_messages(db, chat.session_id) } :
          /\ ms[Len(ms)].role = "assistant"
          /\ ms[Len(ms)].content = Apology("e1")

\* the session was deleted before the apology could be saved: error, and
\* nothing saved
C36_WitnessError ==
    /\ chat.pc = "closed"
    /\ chat.states[Len(chat.states)] = "ERRORED"
    /\ Events(chat.trace)[Len(Events(chat.trace))].kind = "error"
    /\ Positions(chat.trace, {"persist"}) = {}
    /\ ~Exists(db, chat.session_id)

-----------------------------------------------------------------------------
(* Properties of a chat turn among the repository calls of other requests  *)
(* (TurnSpec)                                                              *)

\* the payload of the turn leaves out the message the turn stored, and
\* only that one, of the history it fetched: the last fetched message is
\* the turn's own, the payload ends with the current message and holds it
\* nowhere else, and its history part is every other fetched message that
\* is not an upload marker
OwnMessageRemoved ==
    LET fetched == chat.history
        own == [role |-> "user", content |-> chat.message]
        others == SelectSeq(fetched, LAMBDA m :
                     /\ m # own
                     /\ ~StartsWith(m.content, UPLOADED)
                     /\ ~StartsWith(m.content, LOADED))
    IN /\ fetched # << >> => fetched[Len(fetched)] = own
       /\ Payload[Len(Payload)].role = "user"
       /\ \A i \in 1..Len(HistoryPart) :
             HistoryPart[i].content # TextContent(chat.message)
       /\ HistoryPart = [i \in 1..Len(others) |->
                           ChatMessage(others[i].role, TextContent(others[i].content))]

\* C37: in every chat turn, also when another request appends a message to
\* the session between the turn's append of its user message and its read
\* of the history, the message removed from the fetched history is the
\* turn's own user message: the payload holds the current user message
\* exactly once, as its last element, and omits no other message of the
\* recent history.
C37_OwnMessageRemoved == Len(chat.calls) >= 1 => OwnMessageRemoved

\* the same for the turns during whose reads no other request changed the
\* database
C37_OwnMessageRemovedWhenAlone ==
    (Len(chat.calls) >= 1 /\ Cardinality(last.seen) = 1) => OwnMessageRemoved

C37_WitnessWhenAlone ==
    /\ Len(chat.calls) = 1
    /\ Cardinality(last.seen) = 1
    /\ Len(chat.history) = 3
    /\ Len(HistoryPart) = 1
    /\ HistoryPart[1].role = "assistant"

\* what the turn read of the session is what one state `d` of the database
\* holds
ReadFrom(d) ==
    /\ chat.image_to_use = Or(chat.image_base64, get_active_image(d, chat.session_id))
    /\ chat.active_csv = get_active_csv(d, chat.session_id)
    /\ chat.csv_summary = get_csv_summary(d, chat.session_id)

\* the CSV block of the prompt, if any, holds the summary of the dataset
\* whose context it holds
BlockOfOneDataset ==
    \A i \in 2..Len(Payload[1].content.text) :
        \E block \in { Payload[1].content.text[i] } :
            block.summary[1] = <<"Dataset", block.filename>>

\* C38: the tabular context, the summary text and the stored image a turn
\* builds its prompt from are those of one committed state of the session,
\* also when an upload, a replacement or a clear on the same session is
\* committed between the reads of the turn; the prompt never holds the
\* context of one dataset with the summary of another.
C38_ContextFromOneSnapshot ==
    /\ chat.pc \notin ({"idle"} \cup ReadWindow) => \E d \in last.seen : ReadFrom(d)
    /\ Len(chat.calls) >= 1 => BlockOfOneDataset

\* the same for the turns during whose reads no other request changed the
\* database
C38_ContextFromOneSnapshotWhenAlone ==
    Cardinality(last.seen) = 1 =>
        /\ chat.pc \notin ({"idle"} \cup ReadWindow) => \E d \in last.seen : ReadFrom(d)
        /\ Len(chat.calls) >= 1 => BlockOfOneDataset

C38_WitnessWhenAlone ==
    /\ Len(chat.calls) = 1
    /\ Cardinality(last.seen) = 1
    /\ chat.image_to_use = Some(<<"imgA">>)
    /\ Len(Payload[1].content.text) = 2
    /\ Payload[1].content.text[2].filename = "t1.csv"

\* every stored message, image and CSV context of `d` belongs to a session
\* that `d` holds
NoOrphans(d) ==
    /\ \A i \in 1..Len(d.messages) : Exists(d, d.messages[i].conversation_id)
    /\ \A r \in d.image_contexts : Exists(d, r.conversation_id)
    /\ \A r \in d.csv_contexts : Exists(d, r.conversation_id)

\* C39: however the deletion of a session interleaves with a chat stream in
\* flight and with the calls of uploads on the same session, every stored
\* message, active image and active CSV context belongs to an existing
\* session; a deleted session does not come back and nothing is stored for
\* it afterwards: an append fails with not-found (the chat stream then ends
\* with error), set_active_image and set_active_csv return without effect.
C39_NoRecordOfDeletedSession ==
    [][ /\ NoOrphans(db')
        /\ \A c \in 1..db.issued : ~Exists(db, c) => ~Exists(db', c)
        /\ (~Exists(db, 1) /\ last'.n = last.n + 1) =>
              /\ db' = db
              /\ last'.op = "add_message" => last'.raised = Some("ValueError")
              /\ last'.op \in {"set_active_image", "set_active_csv",
                               "clear_csv_context"} => IsNone(last'.raised)
        /\ (~Exists(db, chat.session_id) /\ chat.pc = "primary_stream"
              /\ chat'.pc = "sent_terminal") =>
              /\ db' = db
              /\ chat'.trace[Len(chat'.trace)].kind = "error"
              /\ Positions(chat'.trace, {"persist"}) = {}
      ]_vars

\* the session was deleted while the stream was open, an image upload then
\* called set_active_image for it, and the stream ended: nothing is stored
C39_Witness ==
    /\ chat.pc = "closed"
    /\ chat.full_response # << >>
    /\ chat.trace[Len(chat.trace)].kind = "error"
    /\ last.op = "set_active_image"
    /\ IsNone(last.raised)
    /\ ~Exists(last.before, 1)
    /\ db.conversations = << >>
    /\ db.messages = << >>
    /\ db.image_contexts = {}
    /\ db.csv_contexts = {}

\* after the deletion another request tried to append: not-found
C39_WitnessAppend ==
    /\ last.op = "add_message"
    /\ last.raised = Some("ValueError")
    /\ ~Exists(last.before, 1)
    /\ db.messages = << >>

\* after the deletion a CSV upload called set_active_csv: no effect
C39_WitnessCsv ==
    /\ last.op = "set_active_csv"
    /\ IsNone(last.raised)
    /\ ~Exists(last.before, 1)
    /\ db.csv_contexts = {}

\* the image and CSV state of the sessions: the context rows, and the
\* fields of the session rows that describe them
ContextsOf(d) ==
    [ image_contexts |-> d.image_contexts,
      csv_contexts   |-> d.csv_contexts,
      of_sessions    |->
          [ c \in DOMAIN d.conversations |->
              [ has_active_image |-> d.conversations[c].has_active_image,
                image_filename   |-> d.conversations[c].image_filename,
                has_active_csv   |-> d.conversations[c].has_active_csv,
                csv_filename     |-> d.conversations[c].csv_filename,
                csv_summary      |-> d.conversations[c].csv_summary ] ] ]

\* C40: no step of a chat-stream request changes an active image or an
\* active CSV context: the image attached to the turn is used for the turn
\* and not stored.  The request writes to the store twice at most: before
\* any event is sent it appends its user message (to the session it names,
\* or to the new, empty session it created when it names none), and when
\* the stream has ended it appends the assistant message; an append also
\* sets the last-update time of the session and, if it has none, its title.
C40_ChatLeavesContexts ==
    [][ chat' # chat =>
          \E sid \in { chat'.session_id } :
             /\ IF chat.pc = "idle" /\ ~Exists(db, sid)
                THEN /\ ContextsOf(db') =
                           [ContextsOf(db) EXCEPT !.of_sessions =
                               [c \in DOMAIN db'.conversations |->
                                   IF c = sid
                                   THEN [ has_active_image |-> FALSE,
                                          image_filename   |-> None,
                                          has_active_csv   |-> FALSE,
                                          csv_filename     |-> None,
                                          csv_summary      |-> None ]
                                   ELSE @[c]]]
                     /\ DOMAIN db'.conversations = DOMAIN db.conversations \cup {sid}
                ELSE /\ ContextsOf(db') = ContextsOf(db)
             /\ \A c \in DOMAIN db.conversations \ {sid} :
                   db'.conversations[c] = db.conversations[c]
             /\ \/ db'.messages = db.messages
                \/ /\ chat.pc = "idle"
                   /\ chat'.trace = << >>
                   /\ \E m \in { db'.messages[Len(db'.messages)] } :
                         /\ db'.messages = Append(db.messages, m)
                         /\ m.conversation_id = sid
                         /\ m.role = "user"
                         /\ m.content = chat'.message
                         /\ IsNone(m.image_url)
                \/ /\ chat.pc = "primary_stream"
                   /\ chat'.pc = "sent_terminal"
                   /\ chat'.trace[Len(chat'.trace)].kind = "done"
                   /\ \E m \in { db'.messages[Len(db'.messages)] } :
                         /\ db'.messages = Append(db.messages, m)
                         /\ m.conversation_id = sid
                         /\ m.role = "assistant"
                         /\ m.content = chat.full_response
                         /\ IsNone(m.image_url)
             /\ db'.messages = db.messages => db' = db
      ]_vars

\* a turn with a pasted image on a session that holds an uploaded image and
\* an uploaded CSV has ended: the pasted image went to the model, the
\* session holds the image and the CSV context it held, and two more
\* messages
C40_Witness ==
    /\ chat.pc = "closed"
    /\ last.n = 0
    /\ chat.session_id = 1
    /\ chat.image_base64 = Some(<<"imgP">>)
    /\ chat.image_to_use = Some(<<"imgP">>)
    /\ Payload[Len(Payload)].content.kind = "list"
    /\ get_active_image(db, 1) = Some(<<"imgA">>)
    /\ get_active_csv(db, 1) # None
    /\ The(get_active_csv(db, 1)).filename = "t1.csv"
    /\ \E ms \in { get_messages(db, 1) } :
          /\ Len(ms) = 4
          /\ ms[3].role = "user"
          /\ IsNone(ms[3].image_url)
          /\ ms[4].role = "assistant"
          /\ ms[4].content = chat.full_response

\* a turn that names no session and pastes an image: the session it
\* created holds no image
C40_WitnessNew ==
    /\ chat.pc = "closed"
    /\ chat.session_id = 2
    /\ chat.image_base64 = Some(<<"imgP">>)
    /\ IsNone(get_active_image(db, 2))
    /\ ~db.conversations[2].has_active_image
    /\ Len(get_messages(db, 2)) = 2

====
